---- MODULE Spec2Model ----
(***************************************************************************)
(* Model of the document path-addressing and field-projection engine of   *)
(* mcp-smartroom-apm: src/src/data_processing.py (get_nested_value,        *)
(* format_extracted_values, set_nested_value, deduplicate_field_values,    *)
(* apply_field_aliases, process_elasticsearch_data) and the alias          *)
(* rewriting of src/src/elasticsearch_client.py.                           *)
(*                                                                         *)
(* Python objects live in a heap: dicts and lists are heap objects that    *)
(* are reached through references, so that two names for one dict are one  *)
(* object, as in Python.  Strings are sequences of one-character strings,  *)
(* so that split, endswith, strip and int() are computed, not assumed.     *)
(***************************************************************************)
EXTENDS Integers, Sequences, FiniteSets, TLC

VARIABLES heap, config, call, result, sent, before

vars == <<heap, config, call, result, sent, before>>

(***************************************************************************)
(* Bounds of the model.                                                    *)
(***************************************************************************)
\* longest generated array in the generated documents {"a": [...]}
MaxArrayLen == 2
\* generated index paths a[i] range over -MaxIndex .. MaxIndex
MaxIndex == 3
\* depth to which a heap value is unfolded into a plain JSON tree
MaxDepth == 10
\* most hits in a generated record set
MaxHits == 2
\* longest generated list handed to format_extracted_values
MaxListLen == 3
\* longest generated string handed to deduplicate_field_values
MaxStrLen == 5

(***************************************************************************)
(* Python str operations, on sequences of characters.                      *)
(***************************************************************************)
\* c in s, for a one-character c
Contains(s, c) == \E i \in 1..Len(s) : s[i] = c

\* s.find(c) + 1: the position of the first c in s, 0 when there is none
IndexOf(s, c) ==
    IF Contains(s, c)
    THEN CHOOSE i \in 1..Len(s) : s[i] = c /\ \A j \in 1..(i - 1) : s[j] # c
    ELSE 0

\* s.split(c, 1) for an s that contains c
split1(s, c) ==
    LET i == IndexOf(s, c)
    IN  <<SubSeq(s, 1, i - 1), SubSeq(s, i + 1, Len(s))>>

\* s.split(c)
RECURSIVE split(_, _)
split(s, c) ==
    IF ~Contains(s, c) THEN <<s>>
    ELSE LET i == IndexOf(s, c)
         IN  <<SubSeq(s, 1, i - 1)>> \o split(SubSeq(s, i + 1, Len(s)), c)

\* s.endswith(suffix)
endswith(s, suffix) ==
    /\ Len(s) >= Len(suffix)
    /\ SubSeq(s, Len(s) - Len(suffix) + 1, Len(s)) = suffix

Whitespace == {" ", "\t", "\n"}

\* s.strip()
RECURSIVE strip(_)
strip(s) ==
    IF s = <<>> THEN s
    ELSE IF s[1] \in Whitespace THEN strip(Tail(s))
    ELSE IF s[Len(s)] \in Whitespace THEN strip(SubSeq(s, 1, Len(s) - 1))
    ELSE s

\* sep.join(items)
RECURSIVE join(_, _)
join(sep, items) ==
    IF items = <<>> THEN <<>>
    ELSE IF Len(items) = 1 THEN items[1]
    ELSE items[1] \o sep \o join(sep, Tail(items))

Digits == <<"0", "1", "2", "3", "4", "5", "6", "7", "8", "9">>

IsDigit(c) == \E i \in 1..10 : Digits[i] = c

DigitVal(c) == (CHOOSE i \in 1..10 : Digits[i] = c) - 1

\* s without its sign
unsigned(b) == IF b # <<>> /\ b[1] \in {"+", "-"} THEN Tail(b) ELSE b

\* digits with single underscores between them
is_digits(d) ==
    /\ d # <<>>
    /\ \A i \in 1..Len(d) : IsDigit(d[i]) \/ d[i] = "_"
    /\ d[1] # "_" /\ d[Len(d)] # "_"
    /\ \A i \in 1..(Len(d) - 1) : ~(d[i] = "_" /\ d[i + 1] = "_")

\* whether int(s) accepts s: optional surrounding whitespace, an optional
\* sign, then digits with single underscores between them
int_accepts(s) == is_digits(unsigned(strip(s)))

RECURSIVE digits_value(_, _)
digits_value(d, acc) ==
    IF d = <<>> THEN acc
    ELSE IF d[1] = "_" THEN digits_value(Tail(d), acc)
    ELSE digits_value(Tail(d), 10 * acc + DigitVal(d[1]))

\* the value of a signed literal
signed_value(b) ==
    IF b[1] = "-" THEN 0 - digits_value(Tail(b), 0) ELSE digits_value(unsigned(b), 0)

\* int(s) for an s that int() accepts
int_value(s) == signed_value(strip(s))

\* str(n) for an integer n
RECURSIVE nat_str(_)
nat_str(n) ==
    IF n < 10 THEN <<Digits[n + 1]>>
    ELSE nat_str(n \div 10) \o <<Digits[(n % 10) + 1]>>

int_str(n) == IF n < 0 THEN <<"-">> \o nat_str(0 - n) ELSE nat_str(n)

(***************************************************************************)
(* Python values.  A value is a scalar (None, str, int, bool), a reference *)
(* to a heap object (dict or list), or a list that was just built and is   *)
(* held by no object yet.  The same records, with t = "dict" and nested    *)
(* items, write a JSON document down as a plain tree.                      *)
(***************************************************************************)
Scalar(t, s) == [t |-> t, v |-> s, a |-> 0, keys |-> <<>>, items |-> <<>>]

None == Scalar("null", <<>>)

Str(s) == Scalar("str", s)

Num(n) == Scalar("int", int_str(n))

True == Scalar("bool", <<"T", "r", "u", "e">>)

False == Scalar("bool", <<"F", "a", "l", "s", "e">>)

Ref(a) == [t |-> "ref", v |-> <<>>, a |-> a, keys |-> <<>>, items |-> <<>>]

PyList(items) == [t |-> "list", v |-> <<>>, a |-> 0, keys |-> <<>>, items |-> items]

PyDict(keys, items) == [t |-> "dict", v |-> <<>>, a |-> 0, keys |-> keys, items |-> items]

\* the outcome of a call that raised the exception exc
Raise(exc) == Scalar("raise", <<exc>>)

IsRaise(x) == x.t = "raise"

isinstance_dict(h, x) == x.t = "ref" /\ h[x.a].k = "dict"

isinstance_list(h, x) == x.t = "list" \/ (x.t = "ref" /\ h[x.a].k = "list")

isinstance_str(x) == x.t = "str"

list_items(h, x) == IF x.t = "list" THEN x.items ELSE h[x.a].vals

\* key in d, for a dict d
dict_has(h, d, key) == \E i \in 1..Len(h[d.a].keys) : h[d.a].keys[i] = key

\* d[key], for a dict d that has the key
dict_item(h, d, key) ==
    h[d.a].vals[CHOOSE i \in 1..Len(h[d.a].keys) : h[d.a].keys[i] = key]

\* d.get(key, default)
dict_get(h, d, key, default) ==
    IF dict_has(h, d, key) THEN dict_item(h, d, key) ELSE default

\* the heap after d[key] = value: an existing key keeps its position
dict_set(h, d, key, value) ==
    LET o == h[d.a]
    IN  IF dict_has(h, d, key)
        THEN LET i == CHOOSE j \in 1..Len(o.keys) : o.keys[j] = key
             IN  [h EXCEPT ![d.a].vals[i] = value]
        ELSE [h EXCEPT ![d.a].keys = Append(o.keys, key),
                       ![d.a].vals = Append(o.vals, value)]

\* Python truth value
truthy(h, x) ==
    CASE x.t = "null" -> FALSE
      [] x.t = "str" -> x.v # <<>>
      [] x.t = "int" -> x.v # <<"0">>
      [] x.t = "bool" -> x = True
      [] x.t = "list" -> x.items # <<>>
      [] x.t = "ref" -> h[x.a].vals # <<>>
      [] OTHER -> TRUE

(***************************************************************************)
(* Building a JSON tree in the heap, and reading one back.                 *)
(***************************************************************************)
IsContainer(tree) == tree.t \in {"dict", "list"}

\* the number of heap objects a tree needs: one for each dict and list in it
RECURSIVE NodeCount(_)
RECURSIVE NodeCounts(_, _)
\* the objects needed by the first n of the trees
NodeCounts(trees, n) ==
    IF n = 0 THEN 0 ELSE NodeCounts(trees, n - 1) + NodeCount(trees[n])

NodeCount(tree) ==
    IF IsContainer(tree) THEN 1 + NodeCounts(tree.items, Len(tree.items)) ELSE 0

RECURSIVE Concat(_, _)
\* the first n of the sequences, concatenated
Concat(seqs, n) == IF n = 0 THEN <<>> ELSE Concat(seqs, n - 1) \o seqs[n]

\* the heap objects of a tree built at the addresses after base: the children
\* of a container first, in order, then the container itself
RECURSIVE Objects(_, _)
Objects(base, tree) ==
    IF ~IsContainer(tree) THEN <<>>
    ELSE LET n == Len(tree.items)
             at == [i \in 1..n |-> base + NodeCounts(tree.items, i - 1)]
             vals == [i \in 1..n |->
                        IF IsContainer(tree.items[i])
                        THEN Ref(at[i] + NodeCount(tree.items[i]))
                        ELSE tree.items[i]]
             below == [i \in 1..n |-> Objects(at[i], tree.items[i])]
         IN  Concat(below, n) \o <<[k |-> tree.t, keys |-> tree.keys, vals |-> vals]>>

\* the heap and the value after the tree is built
Load(h, tree) ==
    [heap |-> h \o Objects(Len(h), tree),
     val |-> IF IsContainer(tree) THEN Ref(Len(h) + NodeCount(tree)) ELSE tree]

\* the JSON tree a value stands for, unfolded to depth d
RECURSIVE Deref(_, _, _)
Deref(h, x, d) ==
    IF x.t = "ref"
    THEN IF d = 0 THEN Scalar("deeper", <<>>)
         ELSE LET o == h[x.a]
              IN  [t |-> o.k, v |-> <<>>, a |-> 0, keys |-> o.keys,
                   items |-> [i \in 1..Len(o.vals) |-> Deref(h, o.vals[i], d - 1)]]
    ELSE IF x.t = "list"
    THEN IF d = 0 THEN Scalar("deeper", <<>>)
         ELSE PyList([i \in 1..Len(x.items) |-> Deref(h, x.items[i], d - 1)])
    ELSE x

Tree(h, x) == Deref(h, x, MaxDepth)

(***************************************************************************)
(* get_nested_value / _traverse_path                                       *)
(***************************************************************************)
\* array_field[index] is defined: Python accepts -len .. len-1
subscript_ok(index, len) == 0 - len <= index /\ index < len

\* array_field[index], 1-based position
subscript_pos(index, len) == IF index < 0 THEN len + index + 1 ELSE index + 1

\* the guard of line 73: index >= len(array_field)
index_too_large(index, len) == index >= len

\* line 57 without its fallback: the accumulated list even when it is empty
results_even_empty(r) == r

\* line 57: results if results else None
results_or_none(r) == IF r.items # <<>> THEN r ELSE None

RECURSIVE traverse_path(_, _, _)
RECURSIVE collect_results(_, _, _, _, _)
\* lines 77 and 85: _traverse_path(x, rest_path) if rest_path else x
traverse_rest(h, next_obj, rest_path) ==
    IF rest_path # <<>> THEN traverse_path(h, next_obj, rest_path) ELSE next_obj

\* the loop of lines 44-55 from item i on, results holding the values so far
collect_results(h, array_field, rest_path, i, results) ==
    IF i > Len(array_field) THEN PyList(results)
    ELSE LET value == traverse_rest(h, array_field[i], rest_path)
         IN  IF IsRaise(value) THEN value
             ELSE IF value = None
             THEN collect_results(h, array_field, rest_path, i + 1, results)
             ELSE IF isinstance_list(h, value)
             THEN collect_results(h, array_field, rest_path, i + 1,
                                  results \o list_items(h, value))
             ELSE collect_results(h, array_field, rest_path, i + 1,
                                  Append(results, value))

\* lines 40-57: the values of all elements of array_field
traverse_elements(h, array_field, rest_path) ==
    IF ~isinstance_list(h, array_field) THEN None
    ELSE LET r == collect_results(h, list_items(h, array_field), rest_path, 1, <<>>)
         IN  IF IsRaise(r) THEN r ELSE results_or_none(r)

\* lines 35-57: first_part is field_name[]
traverse_all(h, obj, field_name, rest_path) ==
    IF ~isinstance_dict(h, obj) \/ ~dict_has(h, obj, field_name) THEN None
    ELSE traverse_elements(h, dict_item(h, obj, field_name), rest_path)

\* lines 72-77: element index of array_field
traverse_element(h, array_field, index, rest_path) ==
    IF \/ ~isinstance_list(h, array_field)
       \/ index_too_large(index, Len(list_items(h, array_field)))
    THEN None
    ELSE IF ~subscript_ok(index, Len(list_items(h, array_field)))
    THEN Raise("IndexError")
    ELSE traverse_rest(h,
                       list_items(h, array_field)[
                           subscript_pos(index, Len(list_items(h, array_field)))],
                       rest_path)

\* lines 64-77: first_part is field_name[index_str]
traverse_index(h, obj, field_name, index_str, rest_path) ==
    IF ~int_accepts(index_str) THEN None
    ELSE IF ~isinstance_dict(h, obj) \/ ~dict_has(h, obj, field_name) THEN None
    ELSE traverse_element(h, dict_item(h, obj, field_name), int_value(index_str),
                          rest_path)

\* lines 61-62: field_name, index_part = first_part.split('[', 1), and
\* index_part[:-1]
traverse_subscript(h, obj, sp, rest_path) ==
    traverse_index(h, obj, sp[1], SubSeq(sp[2], 1, Len(sp[2]) - 1), rest_path)

\* lines 81-85: first_part is a plain field
traverse_field(h, obj, first_part, rest_path) ==
    IF ~isinstance_dict(h, obj) \/ ~dict_has(h, obj, first_part) THEN None
    ELSE traverse_rest(h, dict_item(h, obj, first_part), rest_path)

\* lines 33-85: the three kinds of first_part
traverse_part(h, obj, first_part, rest_path) ==
    IF endswith(first_part, <<"[", "]">>)
    THEN traverse_all(h, obj, SubSeq(first_part, 1, Len(first_part) - 2), rest_path)
    ELSE IF Contains(first_part, "[") /\ endswith(first_part, <<"]">>)
    THEN traverse_subscript(h, obj, split1(first_part, "["), rest_path)
    ELSE traverse_field(h, obj, first_part, rest_path)

\* lines 27-31: first_part, rest_path = path.split('.', 1), or path, ''
traverse_parts(h, obj, parts) == traverse_part(h, obj, parts[1], parts[2])

traverse_path(h, obj, path) ==
    IF path = <<>> THEN obj
    ELSE IF Contains(path, ".") THEN traverse_parts(h, obj, split1(path, "."))
    ELSE traverse_part(h, obj, path, <<>>)

get_nested_value(h, obj, path) == traverse_path(h, obj, path)

(***************************************************************************)
(* str() and repr() of a value                                             *)
(***************************************************************************)
RECURSIVE py_repr(_, _, _)
RECURSIVE repr_items(_, _, _, _, _)
\* the reprs of the entries from i on, joined by ", "; keys is <<>> for a list
repr_items(h, keys, vals, i, visiting) ==
    IF i > Len(vals) THEN <<>>
    ELSE LET one == IF keys = <<>> THEN py_repr(h, vals[i], visiting)
                    ELSE <<"'">> \o keys[i] \o <<"'", ":", " ">>
                         \o py_repr(h, vals[i], visiting)
         IN  IF i = Len(vals) THEN one
             ELSE one \o <<",", " ">> \o repr_items(h, keys, vals, i + 1, visiting)

\* repr(x); visiting holds the containers being printed, which print as ...
py_repr(h, x, visiting) ==
    CASE x.t = "str" -> <<"'">> \o x.v \o <<"'">>
      [] x.t = "null" -> <<"N", "o", "n", "e">>
      [] x.t = "list" -> <<"[">> \o repr_items(h, <<>>, x.items, 1, visiting) \o <<"]">>
      [] x.t = "ref" ->
           IF h[x.a].k = "dict"
           THEN IF x.a \in visiting THEN <<"{", ".", ".", ".", "}">>
                ELSE <<"{">> \o repr_items(h, h[x.a].keys, h[x.a].vals, 1,
                                           visiting \cup {x.a}) \o <<"}">>
           ELSE IF x.a \in visiting THEN <<"[", ".", ".", ".", "]">>
                ELSE <<"[">> \o repr_items(h, <<>>, h[x.a].vals, 1,
                                           visiting \cup {x.a}) \o <<"]">>
      [] OTHER -> x.v

\* str(x)
py_str(h, x) == IF x.t = "str" THEN x.v ELSE py_repr(h, x, {})

\* list(dict.fromkeys(items)): first occurrences, in order
RECURSIVE unique(_, _)
unique(items, seen) ==
    IF items = <<>> THEN seen
    ELSE IF \E i \in 1..Len(seen) : seen[i] = items[1]
    THEN unique(Tail(items), seen)
    ELSE unique(Tail(items), Append(seen, items[1]))

(***************************************************************************)
(* format_extracted_values                                                 *)
(***************************************************************************)
\* [str(v) for v in values if v is not None]
RECURSIVE str_values(_, _)
str_values(h, values) ==
    IF values = <<>> THEN <<>>
    ELSE IF values[1] = None THEN str_values(h, Tail(values))
    ELSE <<py_str(h, values[1])>> \o str_values(h, Tail(values))

\* format_extracted_values without line 95: every string form is kept
format_keeping_duplicates(h, values) ==
    IF values = None THEN None
    ELSE IF isinstance_list(h, values)
    THEN IF str_values(h, list_items(h, values)) # <<>>
         THEN Str(join(<<",", " ">>, str_values(h, list_items(h, values))))
         ELSE None
    ELSE Str(py_str(h, values))

format_extracted_values(h, values) ==
    IF values = None THEN None
    ELSE IF isinstance_list(h, values)
    THEN LET unique_values == unique(str_values(h, list_items(h, values)), <<>>)
         IN  IF unique_values # <<>> THEN Str(join(<<",", " ">>, unique_values))
             ELSE None
    ELSE Str(py_str(h, values))

(***************************************************************************)
(* deduplicate_field_values                                                *)
(***************************************************************************)
\* the items as they are, not stripped
strip_none(items) == items

\* [item.strip() for item in items]
strip_all(items) == [i \in 1..Len(items) |-> strip(items[i])]

\* deduplicate_field_values without line 116: every item is kept
deduplicate_nothing(h, value) ==
    IF ~truthy(h, value) \/ ~isinstance_str(value) THEN value
    ELSE Str(join(<<",", " ">>, strip_all(split(value.v, ","))))

deduplicate_field_values(h, value) ==
    IF ~truthy(h, value) \/ ~isinstance_str(value) THEN value
    ELSE LET items == strip_all(split(value.v, ","))
             unique_items == unique(items, <<>>)
         IN  Str(join(<<",", " ">>, unique_items))

(***************************************************************************)
(* set_nested_value                                                        *)
(***************************************************************************)
\* current[key] = value and key in current need a dict: on a list, a str,
\* a number or None every statement of the loop raises TypeError
supports_item_assignment(h, current) == isinstance_dict(h, current)

RECURSIVE set_nested_walk(_, _, _, _, _)
\* lines 104-108 from keys[i] on: the heap afterwards, and exc = None or the
\* exception raised
set_nested_walk(h, current, keys, i, value) ==
    IF ~supports_item_assignment(h, current)
    THEN [heap |-> h, exc |-> Raise("TypeError")]
    ELSE IF i = Len(keys)
    THEN [heap |-> dict_set(h, current, keys[i], value), exc |-> None]
    ELSE IF ~dict_has(h, current, keys[i])
    THEN LET fresh == Ref(Len(h) + 1)
             h1 == Append(h, [k |-> "dict", keys |-> <<>>, vals |-> <<>>])
             h2 == dict_set(h1, current, keys[i], fresh)
         IN  set_nested_walk(h2, fresh, keys, i + 1, value)
    ELSE set_nested_walk(h, dict_item(h, current, keys[i]), keys, i + 1, value)

set_nested_value(h, obj, path, value) ==
    set_nested_walk(h, obj, split(path, "."), 1, value)

(***************************************************************************)
(* apply_field_aliases                                                     *)
(***************************************************************************)
S_alias == <<"a", "l", "i", "a", "s">>
S_need_dedupe == <<"n", "e", "e", "d", "_", "d", "e", "d", "u", "p", "e">>
S_description == <<"d", "e", "s", "c", "r", "i", "p", "t", "i", "o", "n">>
S_timestamp == <<"@", "t", "i", "m", "e", "s", "t", "a", "m", "p">>
S_userId == <<"u", "s", "e", "r", "I", "d">>
S_userRole == <<"u", "s", "e", "r", "R", "o", "l", "e">>
S_event == <<"e", "v", "e", "n", "t">>
S_appSessionId == <<"a", "p", "p", "S", "e", "s", "s", "i", "o", "n", "I", "d">>

important_fields == <<S_timestamp, S_userId, S_userRole, S_event, S_appSessionId>>

\* sub in s, for two strings
IsSubstring(sub, s) ==
    \E i \in 0..(Len(s) - Len(sub)) : SubSeq(s, i + 1, i + Len(sub)) = sub

\* key in x, for a string key: "yes", "no", or "error" when x is no container
py_in(h, key, x) ==
    CASE isinstance_dict(h, x) -> IF dict_has(h, x, key) THEN "yes" ELSE "no"
      [] isinstance_list(h, x) ->
           IF \E i \in 1..Len(list_items(h, x)) : list_items(h, x)[i] = Str(key)
           THEN "yes" ELSE "no"
      [] isinstance_str(x) -> IF IsSubstring(key, x.v) THEN "yes" ELSE "no"
      [] OTHER -> "error"

\* lines 127-129 from important_fields[i] on: source[field] needs a dict
RECURSIVE copy_important(_, _, _, _)
copy_important(h, new_source, source, i) ==
    IF i > Len(important_fields) THEN [heap |-> h, exc |-> None]
    ELSE LET field == important_fields[i]
             has == py_in(h, field, source)
         IN  IF has = "no" THEN copy_important(h, new_source, source, i + 1)
             ELSE IF has = "yes" /\ isinstance_dict(h, source)
             THEN copy_important(dict_set(h, new_source, field, dict_item(h, source, field)),
                                 new_source, source, i + 1)
             ELSE [heap |-> h, exc |-> Raise("TypeError")]

\* lines 144-160: the write of one extracted value
write_field(h, new_source, field_name, field_config, value0) ==
    LET alias == dict_get(h, field_config, S_alias, None)
    IN  IF truthy(h, alias)
        THEN LET value == IF truthy(h, dict_get(h, field_config, S_need_dedupe, None))
                             /\ isinstance_str(value0)
                          THEN deduplicate_field_values(h, value0)
                          ELSE value0
             IN  IF Contains(alias.v, ".")
                 THEN set_nested_value(h, new_source, alias.v, value)
                 ELSE [heap |-> dict_set(h, new_source, alias.v, value), exc |-> None]
        ELSE IF Contains(field_name, ".")
             THEN set_nested_value(h, new_source, field_name, value0)
             ELSE [heap |-> dict_set(h, new_source, field_name, value0), exc |-> None]

RECURSIVE apply_fields(_, _, _, _, _)
\* after the write of field i: the exception, or the fields that follow
apply_written(new_source, source, fields_config, i, w) ==
    IF IsRaise(w.exc) THEN w
    ELSE apply_fields(w.heap, new_source, source, fields_config, i + 1)

\* lines 142-160: value is the value to write for field i
apply_value(h, new_source, source, fields_config, i, value) ==
    IF value = None THEN apply_fields(h, new_source, source, fields_config, i + 1)
    ELSE apply_written(new_source, source, fields_config, i,
                       write_field(h, new_source, h[fields_config.a].keys[i],
                                   h[fields_config.a].vals[i], value))

\* lines 135-160: raw_value is what get_nested_value extracted for field i
apply_raw_value(h, new_source, source, fields_config, i, raw_value) ==
    IF IsRaise(raw_value) THEN [heap |-> h, exc |-> raw_value]
    ELSE IF raw_value = None
    THEN apply_fields(h, new_source, source, fields_config, i + 1)
    ELSE IF isinstance_list(h, raw_value)
    THEN apply_value(h, new_source, source, fields_config, i,
                     format_extracted_values(h, raw_value))
    ELSE apply_value(h, new_source, source, fields_config, i, raw_value)

\* lines 132-160 from the i-th entry of fields_config on
apply_fields(h, new_source, source, fields_config, i) ==
    IF i > Len(h[fields_config.a].keys) THEN [heap |-> h, exc |-> None]
    ELSE apply_raw_value(h, new_source, source, fields_config, i,
                         get_nested_value(h, source, h[fields_config.a].keys[i]))

\* line 162: return new_source, unless r is an exception
apply_return(new_source, r) ==
    [heap |-> r.heap, val |-> IF IsRaise(r.exc) THEN r.exc ELSE new_source]

\* lines 131-162, c being the outcome of the copy of the important fields
apply_configured(new_source, source, fields_config, c) ==
    IF IsRaise(c.exc) THEN apply_return(new_source, c)
    ELSE apply_return(new_source,
                      apply_fields(c.heap, new_source, source, fields_config, 1))

\* lines 121-162 with new_source = {} at its address
apply_into(h, new_source, source, fields_config) ==
    apply_configured(new_source, source, fields_config,
                     copy_important(h, new_source, source, 1))

\* the heap after the call, and val = the returned new_source or the exception
apply_field_aliases(h, source, fields_config) ==
    apply_into(Append(h, [k |-> "dict", keys |-> <<>>, vals |-> <<>>]),
               Ref(Len(h) + 1), source, fields_config)

(***************************************************************************)
(* process_elasticsearch_data                                              *)
(***************************************************************************)
S_fields == <<"f", "i", "e", "l", "d", "s">>
S_events == <<"e", "v", "e", "n", "t", "s">>
S_hits == <<"h", "i", "t", "s">>
S_source == <<"_", "s", "o", "u", "r", "c", "e">>

EmptyDict == [k |-> "dict", keys |-> <<>>, vals |-> <<>>]

\* x[key] for a string key: the item of a dict, KeyError when the dict lacks
\* it, TypeError on every other value
py_getitem(h, x, key) ==
    IF isinstance_dict(h, x)
    THEN IF dict_has(h, x, key) THEN dict_item(h, x, key) ELSE Raise("KeyError")
    ELSE Raise("TypeError")

\* d.get(key, {}): the heap and the item, or a new empty dict
get_or_empty(h, d, key) ==
    IF dict_has(h, d, key) THEN [heap |-> h, val |-> dict_item(h, d, key)]
    ELSE [heap |-> Append(h, EmptyDict), val |-> Ref(Len(h) + 1)]

\* what `for hit in x` iterates over: the items of a list, the keys of a
\* dict, the characters of a str; TypeError on the rest
py_iter(h, x) ==
    CASE isinstance_list(h, x) -> PyList(list_items(h, x))
      [] isinstance_dict(h, x) -> PyList([i \in 1..Len(h[x.a].keys) |-> Str(h[x.a].keys[i])])
      [] isinstance_str(x) -> PyList([i \in 1..Len(x.v) |-> Str(<<x.v[i]>>)])
      [] OTHER -> Raise("TypeError")

RECURSIVE process_hits(_, _, _, _)
\* lines 179-180: hit['_source'] = the projected source, then the next hit
process_projected(hits, fields_config, i, r) ==
    IF IsRaise(r.val) THEN [heap |-> r.heap, exc |-> r.val]
    ELSE process_hits(dict_set(r.heap, hits[i], S_source, r.val),
                      hits, fields_config, i + 1)

\* lines 176-180: source = hit['_source']
process_source(h, hits, fields_config, i, source) ==
    IF IsRaise(source) THEN [heap |-> h, exc |-> source]
    ELSE process_projected(hits, fields_config, i,
                           apply_field_aliases(h, source, fields_config))

\* lines 173-180: has is the outcome of '_source' not in hit
process_hit(h, hits, fields_config, i, has) ==
    IF has = "error" THEN [heap |-> h, exc |-> Raise("TypeError")]
    ELSE IF has = "no" THEN process_hits(h, hits, fields_config, i + 1)
    ELSE process_source(h, hits, fields_config, i, py_getitem(h, hits[i], S_source))

\* lines 172-180 from hits[i] on
process_hits(h, hits, fields_config, i) ==
    IF i > Len(hits) THEN [heap |-> h, exc |-> None]
    ELSE process_hit(h, hits, fields_config, i, py_in(h, S_source, hits[i]))

\* line 182: return result, unless r is an exception
process_return(es_result, r) ==
    [heap |-> r.heap, val |-> IF IsRaise(r.exc) THEN r.exc ELSE es_result]

\* line 172: the loop over what iterating result['hits']['hits'] gives
process_iterated(es_result, f, hits) ==
    IF IsRaise(hits) THEN [heap |-> f.heap, val |-> hits]
    ELSE process_return(es_result, process_hits(f.heap, hits.items, f.val, 1))

\* line 172: inner is result['hits']['hits'], f the fields_config of line 170
process_inner(h, es_result, f, inner) ==
    IF IsRaise(inner) THEN [heap |-> f.heap, val |-> inner]
    ELSE process_iterated(es_result, f, py_iter(h, inner))

\* lines 169-170: config = index_config.get(index_name, {}) and
\* fields_config = config.get("fields", {})
fields_config_of(c) == get_or_empty(c.heap, c.val, S_fields)

\* the heap after the call, and val = the returned result or the exception
process_elasticsearch_data(h, es_result, index_name, index_config) ==
    IF ~isinstance_dict(h, es_result) \/ ~dict_has(h, es_result, S_hits)
    THEN [heap |-> h, val |-> es_result]
    ELSE process_inner(h, es_result,
                       fields_config_of(get_or_empty(h, index_config, index_name)),
                       py_getitem(h, dict_item(h, es_result, S_hits), S_hits))

(***************************************************************************)
(* ElasticsearchManager: alias rewriting, _build_query, query_index        *)
(***************************************************************************)
\* lines 125-128 from the i-th field on: alias_to_original[alias] = original_name
RECURSIVE build_alias_mapping(_, _, _, _)
build_alias_mapping(h, alias_to_original, fields_config, i) ==
    IF i > Len(h[fields_config.a].keys) THEN h
    ELSE LET original_name == h[fields_config.a].keys[i]
             field_config == h[fields_config.a].vals[i]
             alias == dict_get(h, field_config, S_alias, None)
         IN  IF truthy(h, alias)
             THEN build_alias_mapping(dict_set(h, alias_to_original, alias.v,
                                               Str(original_name)),
                                      alias_to_original, fields_config, i + 1)
             ELSE build_alias_mapping(h, alias_to_original, fields_config, i + 1)

\* lines 121-128: the heap with the new alias -> original name dict, and the dict
alias_to_original_of(h, index_config) ==
    LET f == get_or_empty(h, index_config, S_fields)
        alias_to_original == Ref(Len(f.heap) + 1)
        h1 == Append(f.heap, EmptyDict)
    IN  [heap |-> build_alias_mapping(h1, alias_to_original, f.val, 1),
         val |-> alias_to_original]

\* line 155 without the lookup: the key as it is
new_key_unchanged(h, alias_mapping, key) == key

\* line 155: alias_mapping.get(key, key)
new_key_of(h, alias_mapping, key) == dict_get(h, alias_mapping, key, Str(key)).v

RECURSIVE replace_field_names_recursive(_, _, _)
RECURSIVE replace_in_items(_, _, _, _, _)
RECURSIVE replace_in_list(_, _, _, _, _)
\* lines 153-156 from the i-th entry of obj on, writing into new_obj
replace_in_items(h, obj, new_obj, alias_mapping, i) ==
    IF i > Len(h[obj.a].keys) THEN h
    ELSE LET key == h[obj.a].keys[i]
             r == replace_field_names_recursive(h, h[obj.a].vals[i], alias_mapping)
         IN  replace_in_items(dict_set(r.heap, new_obj,
                                       new_key_of(h, alias_mapping, key), r.val),
                              obj, new_obj, alias_mapping, i + 1)

\* line 159 from items[i] on: the heap and the rewritten items
replace_in_list(h, items, alias_mapping, i, acc) ==
    IF i > Len(items) THEN [heap |-> h, vals |-> acc]
    ELSE LET r == replace_field_names_recursive(h, items[i], alias_mapping)
         IN  replace_in_list(r.heap, items, alias_mapping, i + 1, Append(acc, r.val))

replace_field_names_recursive(h, obj, alias_mapping) ==
    IF isinstance_dict(h, obj)
    THEN LET new_obj == Ref(Len(h) + 1)
         IN  [heap |-> replace_in_items(Append(h, EmptyDict), obj, new_obj,
                                        alias_mapping, 1),
              val |-> new_obj]
    ELSE IF isinstance_list(h, obj)
    THEN LET r == replace_in_list(h, list_items(h, obj), alias_mapping, 1, <<>>)
         IN  [heap |-> Append(r.heap, [k |-> "list", keys |-> <<>>, vals |-> r.vals]),
              val |-> Ref(Len(r.heap) + 1)]
    ELSE [heap |-> h, val |-> obj]

resolve_aliases_in_filters(h, filters, index_config) ==
    LET m == alias_to_original_of(h, index_config)
    IN  replace_field_names_recursive(m.heap, filters, m.val)

resolve_aliases_in_sort(h, sort, index_config) ==
    LET m == alias_to_original_of(h, index_config)
        r == replace_in_list(m.heap, list_items(h, sort), m.val, 1, <<>>)
    IN  [heap |-> Append(r.heap, [k |-> "list", keys |-> <<>>, vals |-> r.vals]),
         val |-> Ref(Len(r.heap) + 1)]

S_query == <<"q", "u", "e", "r", "y">>
S_size == <<"s", "i", "z", "e">>
S_from == <<"f", "r", "o", "m">>
S_bool == <<"b", "o", "o", "l">>
S_must == <<"m", "u", "s", "t">>
S_range == <<"r", "a", "n", "g", "e">>
S_term == <<"t", "e", "r", "m">>
S_gte == <<"g", "t", "e">>
S_lte == <<"l", "t", "e">>
S_sort == <<"s", "o", "r", "t">>

es_query_types ==
    { S_bool, <<"m", "a", "t", "c", "h">>,
      <<"m", "a", "t", "c", "h", "_", "p", "h", "r", "a", "s", "e">>,
      S_term, <<"t", "e", "r", "m", "s">>, S_range,
      <<"w", "i", "l", "d", "c", "a", "r", "d">>, <<"r", "e", "g", "e", "x", "p">>,
      <<"f", "u", "z", "z", "y">>, <<"p", "r", "e", "f", "i", "x">>,
      <<"e", "x", "i", "s", "t", "s">> }

\* lines 105-112: the clause for one filter entry, as a tree around the value
must_clause(h, key, value) ==
    LET kind == IF isinstance_dict(h, value)
                   /\ (dict_has(h, value, S_gte) \/ dict_has(h, value, S_lte))
                THEN S_range ELSE S_term
    IN  [k |-> kind, key |-> key, value |-> value]

\* lines 104-112 from the i-th filter on: each clause is two new dicts
RECURSIVE build_must(_, _, _, _)
build_must(h, filters, i, acc) ==
    IF i > Len(h[filters.a].keys) THEN [heap |-> h, vals |-> acc]
    ELSE LET c == must_clause(h, h[filters.a].keys[i], h[filters.a].vals[i])
             inner == [k |-> "dict", keys |-> <<c.key>>, vals |-> <<c.value>>]
             outer == [k |-> "dict", keys |-> <<c.k>>, vals |-> <<Ref(Len(h) + 1)>>]
         IN  build_must(h \o <<inner, outer>>, filters, i + 1,
                        Append(acc, Ref(Len(h) + 2)))

\* the heap after the call, and val = the query body
build_query(h, filters, size, from_, sort) ==
    LET direct == \E t \in es_query_types : dict_has(h, filters, t)
        m == build_must(h, filters, 1, <<>>)
        h1 == IF direct THEN h
              ELSE m.heap \o << [k |-> "list", keys |-> <<>>, vals |-> m.vals],
                                [k |-> "dict", keys |-> <<S_must>>,
                                 vals |-> <<Ref(Len(m.heap) + 1)>>],
                                [k |-> "dict", keys |-> <<S_bool>>,
                                 vals |-> <<Ref(Len(m.heap) + 2)>>] >>
        query == IF direct THEN filters ELSE Ref(Len(h1))
        body == [k |-> "dict", keys |-> <<S_query, S_size, S_from>>,
                 vals |-> <<query, size, from_>>]
        query_body == Ref(Len(h1) + 1)
        h2 == Append(h1, body)
    IN  [heap |-> IF truthy(h2, sort) THEN dict_set(h2, query_body, S_sort, sort) ELSE h2,
         val |-> query_body]

\* lines 71-80: the search; q is the query body, response the store's answer
query_search(q, response) ==
    IF IsRaise(response)
    THEN [heap |-> q.heap, val |-> Raise("RuntimeError"), sent |-> q.val]
    ELSE [heap |-> Load(q.heap, response).heap, val |-> Load(q.heap, response).val,
          sent |-> q.val]

\* lines 66-80, f being the resolved filters and s the resolved sort
query_sorted(f, s, size, from_, response) ==
    query_search(build_query(s.heap, f.val, size, from_, s.val), response)

\* lines 65-80, f being the resolved filters
query_resolved(f, size, from_, sort, index_config, response) ==
    IF truthy(f.heap, sort)
    THEN query_sorted(f, resolve_aliases_in_sort(f.heap, sort, index_config),
                      size, from_, response)
    ELSE query_sorted(f, [heap |-> f.heap, val |-> sort], size, from_, response)

\* lines 69-80 alone: the query built from the caller's filters and sort
query_unresolved(h, index, filters, size, from_, sort, index_config, response) ==
    query_search(build_query(h, filters, size, from_, sort), response)

\* lines 63-80
query_known_or_not(h, index, filters, size, from_, sort, index_config, response) ==
    IF truthy(h, index_config) /\ dict_has(h, index_config, index)
    THEN query_resolved(resolve_aliases_in_filters(h, filters,
                                                   dict_item(h, index_config, index)),
                        size, from_, sort, dict_item(h, index_config, index), response)
    ELSE query_search(build_query(h, filters, size, from_, sort), response)

\* query_index without lines 60-61: an index the catalog lacks is queried
\* with its filters as they are
query_index_unchecked(h, index, filters, size, from_, sort, index_config, response) ==
    query_known_or_not(h, index, filters, size, from_, sort, index_config, response)

\* the heap after the call, val = the returned result.body or the exception,
\* and sent = the body handed to the store's search, None when it was not
\* called.  response is what the store answers: a tree, or an exception.
query_index(h, index, filters, size, from_, sort, index_config, response) ==
    IF truthy(h, index_config) /\ ~dict_has(h, index_config, index)
    THEN [heap |-> h, val |-> Raise("ValueError"), sent |-> None]
    ELSE query_known_or_not(h, index, filters, size, from_, sort, index_config, response)

(***************************************************************************)
(* list_indexes                                                            *)
(***************************************************************************)
S_name == <<"n", "a", "m", "e">>
S_original_name == <<"o", "r", "i", "g", "i", "n", "a", "l", "_", "n", "a", "m", "e">>

\* d.get(key, []): the heap and the item, or a new empty list
get_or_empty_list(h, d, key) ==
    IF dict_has(h, d, key) THEN [heap |-> h, val |-> dict_item(h, d, key)]
    ELSE [heap |-> Append(h, [k |-> "list", keys |-> <<>>, vals |-> <<>>]),
          val |-> Ref(Len(h) + 1)]

\* lines 36-40: alias if alias else field_name
key_name_of(h, field_name, field_config) ==
    IF truthy(h, dict_get(h, field_config, S_alias, None))
    THEN dict_get(h, field_config, S_alias, None).v
    ELSE field_name

\* the dict of lines 42-47 as field_config itself, updated in place
field_info_in_place(h, field_name, field_config) ==
    [heap |-> dict_set(h, field_config, S_original_name, Str(field_name)),
     val |-> field_config]

\* lines 42-47: the new dict describing one field
field_info(h, field_name, field_config) ==
    [heap |-> Append(h, [k |-> "dict",
                         keys |-> <<S_original_name, S_description, S_alias,
                                    S_need_dedupe>>,
                         vals |-> <<Str(field_name),
                                    dict_get(h, field_config, S_description, Str(<<>>)),
                                    dict_get(h, field_config, S_alias, None),
                                    dict_get(h, field_config, S_need_dedupe, False)>>]),
     val |-> Ref(Len(h) + 1)]

RECURSIVE fields_info_of(_, _, _, _)
\* line 42: fields_info[key_name] = info, then the next field
fields_info_with(info, fields_info, fields, i) ==
    fields_info_of(dict_set(info.heap, fields_info,
                            key_name_of(info.heap, info.heap[fields.a].keys[i],
                                        info.heap[fields.a].vals[i]),
                            info.val),
                   fields_info, fields, i + 1)

\* lines 33-47 from the i-th field on: the heap with fields_info filled
fields_info_of(h, fields_info, fields, i) ==
    IF i > Len(h[fields.a].keys) THEN h
    ELSE fields_info_with(field_info(h, h[fields.a].keys[i], h[fields.a].vals[i]),
                          fields_info, fields, i)

\* lines 49-53: the entry of one index, fields_info being filled in heap h
index_entry(h, idx, fields_info, events) ==
    [heap |-> Append(h, [k |-> "dict", keys |-> <<S_name, S_fields, S_events>>,
                         vals |-> <<Str(idx), fields_info, events>>]),
     val |-> Ref(Len(h) + 1)]

\* lines 28-47: fields_info = {} at its address, filled from fields
index_fields_info(f, idx, events) ==
    index_entry(fields_info_of(Append(f.heap, EmptyDict), Ref(Len(f.heap) + 1),
                               f.val, 1),
                idx, Ref(Len(f.heap) + 1), events)

\* lines 29-30: events = data.get("events", []), fields = data.get("fields", {})
index_listed(e, idx, data) ==
    index_fields_info(get_or_empty(e.heap, data, S_fields), idx, e.val)

RECURSIVE list_entries(_, _, _, _)
\* line 49: result.append(entry), then the next index
list_appended(entry, index_config, i, entries) ==
    list_entries(entry.heap, index_config, i + 1, Append(entries, entry.val))

\* lines 27-53 from the i-th index on: the heap and the entries of result
list_entries(h, index_config, i, entries) ==
    IF i > Len(h[index_config.a].keys) THEN [heap |-> h, vals |-> entries]
    ELSE list_appended(index_listed(get_or_empty_list(h, h[index_config.a].vals[i],
                                                      S_events),
                                    h[index_config.a].keys[i],
                                    h[index_config.a].vals[i]),
                       index_config, i, entries)

\* line 54: return result
list_result(r) ==
    [heap |-> Append(r.heap, [k |-> "list", keys |-> <<>>, vals |-> r.vals]),
     val |-> Ref(Len(r.heap) + 1)]

\* the heap after the call, and val = the returned list of index entries
list_indexes(h, index_config) == list_result(list_entries(h, index_config, 1, <<>>))

(***************************************************************************)
(* config_utils.py: parse_field_config                                     *)
(***************************************************************************)
S_need_now == <<"n", "e", "e", "d", "_", "n", "o", "w">>

\* lines 30-34 with None as every default
parsed_values_without_defaults(h, raw_config) ==
    IF isinstance_str(raw_config) THEN <<raw_config, None, False>>
    ELSE IF isinstance_dict(h, raw_config)
    THEN <<dict_get(h, raw_config, S_description, None),
           dict_get(h, raw_config, S_alias, None),
           dict_get(h, raw_config, S_need_dedupe, None)>>
    ELSE <<Str(py_str(h, raw_config)), None, False>>

\* the description, alias and need_dedupe of lines 24-28, 30-34 and 37-41
parsed_values(h, raw_config) ==
    IF isinstance_str(raw_config) THEN <<raw_config, None, False>>
    ELSE IF isinstance_dict(h, raw_config)
    THEN <<dict_get(h, raw_config, S_description, Str(<<>>)),
           dict_get(h, raw_config, S_alias, None),
           dict_get(h, raw_config, S_need_dedupe, False)>>
    ELSE <<Str(py_str(h, raw_config)), None, False>>

\* the heap with the new spec dict, and the dict
parse_field_config(h, raw_config) ==
    [heap |-> Append(h, [k |-> "dict",
                         keys |-> <<S_description, S_alias, S_need_dedupe>>,
                         vals |-> parsed_values(h, raw_config)]),
     val |-> Ref(Len(h) + 1)]

(***************************************************************************)
(* load_index_config: the loop over the indexes of the parsed YAML         *)
(***************************************************************************)
\* the text of get_retention_dates_info up to the current time
retention_notice == <<"2", "0", " ", "d", "a", "y", "s", " ">>

\* lines 14-19, now being the formatted current time
get_retention_dates_info(now) == Str(retention_notice \o now)

\* lines 103-105: the parsed spec p of a field, its description replaced when
\* the spec is marked need_now
field_with_notice(p, now) ==
    IF truthy(p.heap, dict_get(p.heap, p.val, S_need_now, None))
    THEN [heap |-> dict_set(p.heap, p.val, S_description, get_retention_dates_info(now)),
          val |-> p.val]
    ELSE p

\* line 107, p being the spec of the field
field_stored(p, field_name, parsed_fields) ==
    dict_set(p.heap, parsed_fields, field_name, p.val)

\* lines 100-107: the heap after the fields from the i-th on were parsed into
\* parsed_fields
RECURSIVE parse_fields(_, _, _, _, _)
parse_fields(h, fields, i, parsed_fields, now) ==
    IF i > Len(h[fields.a].keys) THEN h
    ELSE parse_fields(field_stored(field_with_notice(parse_field_config(h, h[fields.a].vals[i]),
                                                     now),
                                   h[fields.a].keys[i], parsed_fields),
                      fields, i + 1, parsed_fields, now)

\* the entries of a dict object whose key is not the given one
RECURSIVE entries_without(_, _, _)
entries_without(o, key, i) ==
    IF i > Len(o.keys) THEN [k |-> "dict", keys |-> <<>>, vals |-> <<>>]
    ELSE IF o.keys[i] = key THEN entries_without(o, key, i + 1)
    ELSE [k |-> "dict",
          keys |-> <<o.keys[i]>> \o entries_without(o, key, i + 1).keys,
          vals |-> <<o.vals[i]>> \o entries_without(o, key, i + 1).vals]

\* lines 93-96: the fields section of the content, or the content without
\* its events
content_fields(h, content) ==
    IF dict_has(h, content, S_fields) /\ isinstance_dict(h, dict_item(h, content, S_fields))
    THEN [heap |-> h, val |-> dict_item(h, content, S_fields)]
    ELSE [heap |-> Append(h, entries_without(h[content.a], S_events, 1)),
          val |-> Ref(Len(h) + 1)]

\* lines 98-112, f being the fields of the index: parsed_fields is a new dict,
\* and the entry of the index holds it with the events, of which the content
\* has none
index_loaded(f, index_config, index_name, now) ==
    dict_set(parse_fields(f.heap \o <<EmptyDict,
                                      [k |-> "list", keys |-> <<>>, vals |-> <<>>],
                                      [k |-> "dict", keys |-> <<S_fields, S_events>>,
                                       vals |-> <<Ref(Len(f.heap) + 1),
                                                  Ref(Len(f.heap) + 2)>>]>>,
                          f.val, 1, Ref(Len(f.heap) + 1), now),
             index_config, index_name, Ref(Len(f.heap) + 3))

\* lines 76-115 for a YAML document with one index: the heap and the
\* index_config returned
load_index_config(h, index_name, content, now) ==
    IF ~isinstance_dict(h, content)
    THEN [heap |-> Append(h, EmptyDict), val |-> Ref(Len(h) + 1)]
    ELSE [heap |-> index_loaded(content_fields(Append(h, EmptyDict), content),
                                Ref(Len(h) + 1), index_name, now),
          val |-> Ref(Len(h) + 1)]

(***************************************************************************)
(* Inputs: documents, paths and the index catalog                          *)
(***************************************************************************)
S_a == <<"a">>
S_b == <<"b">>
S_x == <<"x">>

\* {"b": s}
ObjB(s) == PyDict(<<S_b>>, <<Str(s)>>)

\* the elements the generated arrays are made of
ArrayElems == {Num(1), ObjB(<<"u">>)}

\* every array of at most MaxArrayLen elements
RECURSIVE ArraysOfLen(_)
ArraysOfLen(n) ==
    IF n = 0 THEN {<<>>}
    ELSE {Append(s, e) : s \in ArraysOfLen(n - 1), e \in ArrayElems}

GeneratedArrays == UNION {ArraysOfLen(n) : n \in 0..MaxArrayLen}

\* documents for path evaluation
PathDocs ==
    {PyDict(<<S_a>>, <<PyList(arr)>>) : arr \in GeneratedArrays}
    \cup
    { PyDict(<<S_a>>, <<ObjB(<<"5">>)>>),
      PyDict(<<S_a>>, <<None>>),
      PyDict(<<S_a>>, <<Str(<<"s">>)>>),
      PyDict(<<S_a>>, <<PyDict(<<S_b>>, <<None>>)>>),
      PyDict(<<S_a>>, <<PyList(<<ObjB(<<"x">>), ObjB(<<"y">>), ObjB(<<"x">>)>>)>>),
      PyDict(<<S_a>>, <<PyList(<<PyDict(<<>>, <<>>), ObjB(<<"t">>)>>)>>),
      PyDict(<<S_a>>, <<PyList(<<None, Num(1)>>)>>),
      PyDict(<<S_a>>, <<PyList(<<PyList(<<Num(1), Num(2)>>), PyList(<<Num(3)>>)>>)>>),
      PyDict(<<S_a>>, <<PyList(<<PyDict(<<S_b>>, <<PyList(<<Num(1), Num(2)>>)>>),
                                 PyDict(<<S_b>>, <<PyList(<<>>)>>),
                                 PyDict(<<S_b>>, <<PyList(<<Num(3)>>)>>)>>)>>),
      PyDict(<<S_a>>, <<PyList(<<PyDict(<<S_a>>, <<PyList(<<>>)>>)>>)>>),
      PyDict(<<S_a, <<"a", "[", "x", "]">>, <<"a", "[", "]", "b">>>>,
             <<PyList(<<Num(1)>>), Num(7), Num(8)>>),
      PyDict(<<>>, <<>>) }

\* a[i] and a[i].b for the generated indexes
IndexPaths ==
    UNION {{S_a \o <<"[">> \o int_str(i) \o <<"]">>,
            S_a \o <<"[">> \o int_str(i) \o <<"]", ".", "b">>} : i \in (0 - MaxIndex)..MaxIndex}

Paths ==
    IndexPaths
    \cup
    { <<>>,
      <<"a">>,
      <<"b">>,
      <<"a", ".", "b">>,
      <<"a", ".", "b", ".", "x">>,
      <<"a", "[", "]">>,
      <<"a", "[", "]", ".", "b">>,
      <<"b", "[", "]">>,
      <<"a", "[", "]", ".", "b", "[", "]">>,
      <<"a", "[", "]", ".", "a", "[", "-", "1", "]">>,
      <<"a", "[", "x", "]">>,
      <<"a", "[", "]", "b">>,
      <<"a", "[", " ", "0", " ", "]">>,
      <<"a", "[", "+", "0", "]">>,
      <<"a", "[", "0", "_", "0", "]">>,
      <<"a", "[", "_", "0", "]">>,
      <<"a", "[", "[", "0", "]">>,
      <<"a", ".">>,
      <<".", "a">> }

\* a parsed field spec, as parse_field_config builds it
FieldSpec(alias, need_dedupe) ==
    PyDict(<<S_description, S_alias, S_need_dedupe>>, <<Str(<<"d">>), alias, need_dedupe>>)

\* the fields sections of the catalog's indexes, in catalog order
FieldsConfigs ==
    << PyDict(<<>>, <<>>),
       PyDict(<< <<"a", ".", "b">> >>, << FieldSpec(Str(<<"a", "b">>), False) >>),
       PyDict(<< S_x >>, << FieldSpec(Str(<<"e", "v", "e", "n", "t", ".", "y">>), False) >>),
       PyDict(<< S_x, <<"e", "v", "e", "n", "t", ".", "y">> >>,
              << FieldSpec(Str(<<"e", "v", "e", "n", "t", ".", "y">>), False),
                 FieldSpec(Str(<<"g">>), False) >>),
       PyDict(<< S_x >>, << FieldSpec(Str(S_userId), False) >>),
       PyDict(<< <<"a", "[", "]", ".", "b">>, S_x >>,
              << FieldSpec(Str(<<"r">>), True), FieldSpec(None, True) >>),
       PyDict(<< <<"a", "[", "-", "1", "]">> >>, << FieldSpec(None, False) >>),
       PyDict(<< S_a, S_x >>,
              << FieldSpec(None, False), FieldSpec(Str(<<"a", ".", "c">>), False) >>),
       PyDict(<< S_userId, S_x, <<"a", ".", "b">> >>,
              << FieldSpec(Str(<<"u", "i", "d">>), False), FieldSpec(Str(<<>>), False),
                 FieldSpec(None, False) >>),
       PyDict(<< <<"a", ".", "b">>, S_x >>,
              << FieldSpec(Str(<<"k">>), False), FieldSpec(Str(<<"k">>), True) >> ),
       PyDict(<< <<"a", "[", "]", ".", "b">>, S_x >>,
              << FieldSpec(None, False), FieldSpec(Str(<<"x", "s">>), True) >> ) >>

IndexName(i) == <<"i">> \o int_str(i)

IndexNames == {IndexName(i) : i \in 1..Len(FieldsConfigs)}

\* the loaded INDEX_CONFIG: {name: {"fields": ..., "events": []}}
IndexConfigTree ==
    PyDict([i \in 1..Len(FieldsConfigs) |-> IndexName(i)],
           [i \in 1..Len(FieldsConfigs) |->
               PyDict(<<S_fields, S_events>>, <<FieldsConfigs[i], PyList(<<>>)>>)])

\* source documents for projection
Sources ==
    { PyDict(<<S_userId, S_a>>, <<Str(<<"u", "1">>), PyDict(<<S_b>>, <<Num(5)>>)>>),
      PyDict(<<S_event, S_x>>, <<PyDict(<<<<"n">>>>, <<Num(1)>>), Num(5)>>),
      PyDict(<<S_event, S_x, S_userId>>,
             <<Str(<<"c", "l", "i", "c", "k">>), Str(<<"v">>), Str(<<"u", "1">>)>>),
      PyDict(<<S_timestamp, S_a, S_x>>,
             <<Str(<<"t">>),
               PyList(<<ObjB(<<"x">>), ObjB(<<"y">>), ObjB(<<"x">>)>>),
               Str(<<"p", ",", " ", "q", ",", "p">>)>>),
      PyDict(<<S_userId, S_a>>, <<Str(<<"u">>), PyList(<<>>)>>),
      PyDict(<<>>, <<>>),
      PyDict(<<S_userId, S_x, S_appSessionId, S_userRole>>,
             <<None, None, Str(<<"s">>), Str(<<"r">>)>>),
      PyDict(<<S_x>>, <<PyList(<<Str(<<"p">>), Str(<<"q">>), Str(<<"p">>)>>)>>) }

\* filters a caller may pass to query_index
Filters ==
    { PyDict(<<>>, <<>>),
      PyDict(<< <<"a", "b">> >>, <<Str(<<"v">>)>>),
      PyDict(<< <<"a", "b">>, <<"a", ".", "b">> >>, <<Num(1), Num(2)>>),
      PyDict(<< <<"r">> >>, << PyDict(<<S_gte>>, <<Num(1)>>) >>),
      PyDict(<< S_bool >>,
             << PyDict(<<S_must>>,
                       << PyList(<< PyDict(<<S_term>>,
                                           <<PyDict(<< <<"a", "b">> >>, <<Str(<<"v">>)>>)>>),
                                    PyDict(<<S_term>>,
                                           <<PyDict(<< <<"r">> >>, <<Num(1)>>)>>) >>) >>) >>),
      PyDict(<< S_range >>,
             << PyDict(<< <<"a", "b">> >>, << PyDict(<<S_lte>>, <<Num(9)>>) >>) >>),
      PyDict(<< <<"k">> >>, <<Str(<<"v">>)>>),
      PyDict(<< S_x >>, << PyList(<< PyDict(<< <<"k">> >>, <<Num(1)>>), Str(<<"a", "b">>) >>) >>) }

\* sort specifications: none, empty, two keys, one key
Sorts ==
    { None,
      PyList(<<>>),
      PyList(<< PyDict(<< <<"a", "b">> >>, <<Str(<<"a", "s", "c">>)>>),
                PyDict(<< S_timestamp >>, <<Str(<<"a", "s", "c">>)>>) >>),
      PyList(<< PyDict(<< <<"k">> >>, <<Str(<<"d", "e", "s", "c">>)>>) >>) }

\* an index name the catalog does not have
UnknownIndex == <<"z", "z">>

\* what the store answers to a search
Responses ==
    { Raise("ConnectionError"),
      PyDict(<<S_hits>>, <<PyDict(<<S_hits>>, <<PyList(<<>>)>>)>>) }

\* sources of the hits of the generated record sets
HitSources ==
    { PyDict(<<S_userId, S_a, S_x>>,
             <<Str(<<"u", "1">>), PyDict(<<S_b>>, <<Num(5)>>), Str(<<"p", ",", "p">>)>>),
      PyDict(<<S_event, S_x>>, <<PyDict(<<<<"n">>>>, <<Num(1)>>), Num(5)>>),
      PyDict(<<S_event, S_x>>, <<Str(<<"c", "l", "i", "c", "k">>), Str(<<"v">>)>>),
      PyDict(<<S_timestamp, S_a>>,
             <<Str(<<"t">>), PyList(<<ObjB(<<"x">>), ObjB(<<"y">>), ObjB(<<"x">>)>>)>>) }

Hits ==
    {PyDict(<<<<"_", "i", "d">>, S_source>>, <<Str(<<"1">>), s>>) : s \in HitSources}
    \cup {PyDict(<<<<"_", "i", "d">>>>, <<Str(<<"2">>)>>)}

RECURSIVE HitsOfLen(_)
HitsOfLen(n) ==
    IF n = 0 THEN {<<>>}
    ELSE {Append(s, e) : s \in HitsOfLen(n - 1), e \in Hits}

\* {"hits": {"hits": [...]}} for every list of at most MaxHits hits
WellShaped ==
    {PyDict(<<S_hits>>, <<PyDict(<<S_hits>>, <<PyList(hs)>>)>>) :
        hs \in UNION {HitsOfLen(n) : n \in 0..MaxHits}}

\* results that do not have the shape {hits: {hits: [...]}}
Malformed ==
    { None,
      Num(5),
      PyList(<<Str(S_hits)>>),
      PyDict(<<<<"t", "o", "o", "k">>>>, <<Num(1)>>),
      PyDict(<<S_hits>>, <<None>>),
      PyDict(<<S_hits>>, <<PyList(<<>>)>>),
      PyDict(<<S_hits>>, <<PyDict(<<<<"t", "o", "t", "a", "l">>>>, <<Num(1)>>)>>),
      PyDict(<<S_hits>>, <<PyDict(<<S_hits>>, <<None>>)>>) }

RecordSets == WellShaped \cup Malformed

\* the elements the generated lists of extracted values are made of
FormatElems == {Str(<<"a">>), Str(<<"b">>), None, Num(1), Str(<<"1">>)}

RECURSIVE ListsOfLen(_)
ListsOfLen(n) ==
    IF n = 0 THEN {<<>>}
    ELSE {Append(s, e) : s \in ListsOfLen(n - 1), e \in FormatElems}

\* extracted lists: every list of at most MaxListLen elements, and lists of
\* other kinds of element
ExtractedLists ==
    {PyList(items) : items \in UNION {ListsOfLen(n) : n \in 0..MaxListLen}}
    \cup
    { PyList(<<Str(<<>>), Str(<<>>)>>),
      PyList(<<True, Str(<<"T", "r", "u", "e">>), False>>),
      PyList(<<ObjB(<<"u">>), PyList(<<Num(1), None>>), ObjB(<<"u">>)>>),
      PyList(<<Str(<<"a", ",", " ", "b">>), Str(<<"a">>), Str(<<"b">>)>>) }

\* extracted values that are no list
ExtractedScalars ==
    { None, Num(5), Num(0), Str(<<"s">>), Str(<<>>), True, False, ObjB(<<"u">>) }

\* the characters of the generated comma lists
ListChars == {"a", "b", ",", " "}

RECURSIVE StringsOfLen(_)
StringsOfLen(n) ==
    IF n = 0 THEN {<<>>}
    ELSE {Append(s, c) : s \in StringsOfLen(n - 1), c \in ListChars}

\* comma lists: every string of at most MaxStrLen characters, and some of
\* the lists of test_deduplicate_field_values
CommaLists ==
    {Str(s) : s \in UNION {StringsOfLen(n) : n \in 0..MaxStrLen}}
    \cup
    { Str(<<"a", ",", "b", ",", "c", ",", "a", ",", "b">>),
      Str(<<"\t", "a", " ", "b", "\n", ",", "a", " ", "b", ",", "a", " ", " ", "b">>) }

\* arguments of deduplicate_field_values that are no string
NotStrings == { None, Num(5), Num(0), False, PyList(<<Str(<<"a", ",", "a">>)>>) }

\* raw field configurations, as the YAML file may hold them
RawFieldConfigs ==
    { Str(<<"d">>), Str(<<>>),
      PyDict(<<>>, <<>>),
      PyDict(<<S_alias>>, <<Str(<<"r">>)>>),
      PyDict(<<S_description, S_alias, S_need_dedupe>>,
             <<Str(<<"d">>), Str(<<"r">>), True>>),
      PyDict(<<S_description, S_need_now>>, <<Str(<<"d">>), True>>),
      PyDict(<<S_need_dedupe, S_x, S_description>>, <<True, Num(1), None>>),
      None, Num(5), False, PyList(<<Str(<<"a">>)>>) }

(***************************************************************************)
(* The state machine: the server holds the loaded catalog; each request    *)
(* builds its arguments in the heap, runs one operation to its end, and    *)
(* the caller then drops the request's objects.                            *)
(***************************************************************************)
\* the content of an index in index.yaml: its fields in a fields section or
\* at the top level, or something that is no mapping
RawContents ==
    {PyDict(<<S_fields>>, <<PyDict(<<S_timestamp, S_x>>, <<r1, r2>>)>>) :
        r1, r2 \in RawFieldConfigs}
    \cup {PyDict(<<S_timestamp>>, <<r>>) : r \in RawFieldConfigs}
    \cup {Str(<<"d">>)}

\* the current time, formatted
Nows == {<<"1">>, <<"2">>}

\* objects, dotted paths and values for set_nested_value
SetDocs ==
    { PyDict(<<>>, <<>>),
      PyDict(<<S_a>>, <<ObjB(<<"5">>)>>),
      PyDict(<<S_a, S_x>>, <<PyDict(<<S_b>>, <<ObjB(<<"5">>)>>), Num(1)>>),
      PyDict(<<S_a, S_x>>, <<Str(<<"s">>), Num(1)>>),
      PyDict(<<S_a>>, <<PyList(<<ObjB(<<"u">>)>>)>>),
      PyDict(<<S_x>>, <<None>>) }

SetPaths ==
    { <<"a">>, <<"x">>, <<"a", ".", "b">>, <<"a", ".", "b", ".", "x">>,
      <<"x", ".", "a">>, <<"a", "[", "0", "]">>, <<"a", "[", "0", "]", ".", "b">>,
      <<"a", "[", "]">> }

SetValues == {Num(2), Str(<<"v">>), None, ObjB(<<"w">>), PyList(<<Num(1)>>)}

Idle == [op |-> "idle", doc |-> None, path |-> <<>>, fields |-> None,
         sort |-> None, cfg |-> None]

NoSnapshot == [doc |-> None, sort |-> None]

LoadedConfig == Load(<<>>, IndexConfigTree)

Init ==
    /\ heap = LoadedConfig.heap
    /\ config = LoadedConfig.val
    /\ call = Idle
    /\ result = None
    /\ sent = None
    /\ before = NoSnapshot

\* the fields section process_elasticsearch_data reads for an index
fields_of(h, index_config, index_name) ==
    dict_item(h, dict_item(h, index_config, index_name), S_fields)

\* the call c has run to its end with outcome r on the arguments in snapshot
Called(c, r, snapshot) ==
    /\ heap' = r.heap
    /\ call' = c
    /\ result' = r.val
    /\ before' = snapshot

GetNestedValue ==
    /\ call.op = "idle"
    /\ \E d \in PathDocs, p \in Paths :
          LET l == Load(heap, d)
          IN  Called([Idle EXCEPT !.op = "get_nested_value", !.doc = l.val, !.path = p],
                     [heap |-> l.heap, val |-> get_nested_value(l.heap, l.val, p)],
                     [doc |-> d, sort |-> None])
    /\ UNCHANGED <<config, sent>>

ApplyFieldAliases ==
    /\ call.op = "idle"
    /\ \E s \in Sources, name \in IndexNames :
          LET l == Load(heap, s)
              fc == fields_of(l.heap, config, name)
          IN  Called([Idle EXCEPT !.op = "apply_field_aliases", !.doc = l.val,
                                  !.path = name, !.fields = fc],
                     apply_field_aliases(l.heap, l.val, fc),
                     [doc |-> s, sort |-> None])
    /\ UNCHANGED <<config, sent>>

ProcessElasticsearchData ==
    /\ call.op = "idle"
    /\ \E rs \in RecordSets, name \in IndexNames \cup {UnknownIndex} :
          LET l == Load(heap, rs)
          IN  Called([Idle EXCEPT !.op = "process_elasticsearch_data", !.doc = l.val,
                                  !.path = name, !.cfg = config],
                     process_elasticsearch_data(l.heap, l.val, name, config),
                     [doc |-> rs, sort |-> None])
    /\ UNCHANGED <<config, sent>>

ResolveAliasesInFilters ==
    /\ call.op = "idle"
    /\ \E f \in Filters, name \in IndexNames :
          LET l == Load(heap, f)
          IN  Called([Idle EXCEPT !.op = "resolve_aliases_in_filters", !.doc = l.val,
                                  !.path = name,
                                  !.fields = fields_of(l.heap, config, name)],
                     resolve_aliases_in_filters(l.heap, l.val,
                                                dict_item(l.heap, config, name)),
                     [doc |-> f, sort |-> None])
    /\ UNCHANGED <<config, sent>>

\* the index_config argument of query_index: the loaded catalog, an empty
\* catalog (nothing was loaded), or the default None
CatalogArgs == {"loaded", "empty", "none"}

\* query_index has run to its end: r.sent is the body the store was handed
Queried(c, r, snapshot) == Called(c, r, snapshot) /\ sent' = r.sent

QueryIndex ==
    /\ call.op = "idle"
    /\ \E f \in Filters, so \in Sorts, name \in IndexNames \cup {UnknownIndex},
          c \in CatalogArgs, response \in Responses :
          LET l == Load(heap, f)
              ls == Load(l.heap, so)
              lc == Load(ls.heap, IF c = "empty" THEN PyDict(<<>>, <<>>) ELSE None)
              cfg == IF c = "loaded" THEN config ELSE lc.val
          IN  Queried([Idle EXCEPT !.op = "query_index", !.doc = l.val, !.path = name,
                                   !.sort = ls.val, !.cfg = cfg],
                      query_index(lc.heap, name, l.val, Num(100), Num(0), ls.val, cfg,
                                  response),
                      [doc |-> f, sort |-> so])
    /\ UNCHANGED config

ListIndexes ==
    /\ call.op = "idle"
    /\ Called([Idle EXCEPT !.op = "list_indexes", !.cfg = config],
              list_indexes(heap, config), NoSnapshot)
    /\ UNCHANGED <<config, sent>>

ParseFieldConfig ==
    /\ call.op = "idle"
    /\ \E raw \in RawFieldConfigs :
          LET l == Load(heap, raw)
          IN  Called([Idle EXCEPT !.op = "parse_field_config", !.doc = l.val],
                     parse_field_config(l.heap, l.val),
                     [doc |-> raw, sort |-> None])
    /\ UNCHANGED <<config, sent>>

LoadIndexConfig ==
    /\ call.op = "idle"
    /\ \E content \in RawContents, now \in Nows :
          LET l == Load(heap, content)
          IN  Called([Idle EXCEPT !.op = "load_index_config", !.doc = l.val,
                                  !.path = IndexName(1), !.sort = Str(now)],
                     load_index_config(l.heap, IndexName(1), l.val, now),
                     [doc |-> content, sort |-> None])
    /\ UNCHANGED <<config, sent>>

SetNestedValue ==
    /\ call.op = "idle"
    /\ \E d \in SetDocs, p \in SetPaths, v \in SetValues :
          LET l == Load(heap, d)
              lv == Load(l.heap, v)
              r == set_nested_value(lv.heap, l.val, p, lv.val)
          IN  Called([Idle EXCEPT !.op = "set_nested_value", !.doc = l.val, !.path = p,
                                  !.sort = lv.val],
                     [heap |-> r.heap, val |-> r.exc],
                     [doc |-> d, sort |-> v])
    /\ UNCHANGED <<config, sent>>

FormatExtractedValues ==
    /\ call.op = "idle"
    /\ \E values \in ExtractedLists \cup ExtractedScalars :
          LET l == Load(heap, values)
          IN  Called([Idle EXCEPT !.op = "format_extracted_values", !.doc = l.val],
                     [heap |-> l.heap, val |-> format_extracted_values(l.heap, l.val)],
                     [doc |-> values, sort |-> None])
    /\ UNCHANGED <<config, sent>>

DeduplicateFieldValues ==
    /\ call.op = "idle"
    /\ \E value \in CommaLists \cup NotStrings :
          LET l == Load(heap, value)
          IN  Called([Idle EXCEPT !.op = "deduplicate_field_values", !.doc = l.val],
                     [heap |-> l.heap, val |-> deduplicate_field_values(l.heap, l.val)],
                     [doc |-> value, sort |-> None])
    /\ UNCHANGED <<config, sent>>

\* the caller is done with the result: the request's objects are dropped
Return ==
    /\ call.op # "idle"
    /\ heap' = SubSeq(heap, 1, Len(LoadedConfig.heap))
    /\ call' = Idle
    /\ result' = None
    /\ sent' = None
    /\ before' = NoSnapshot
    /\ UNCHANGED config

Next ==
    \/ GetNestedValue
    \/ ApplyFieldAliases
    \/ ProcessElasticsearchData
    \/ ResolveAliasesInFilters
    \/ QueryIndex
    \/ ListIndexes
    \/ ParseFieldConfig
    \/ LoadIndexConfig
    \/ SetNestedValue
    \/ FormatExtractedValues
    \/ DeduplicateFieldValues
    \/ Return

Spec == Init /\ [][Next]_vars

(***************************************************************************)
(* Two calls at once.  Two apply_field_aliases calls, or two alias         *)
(* rewriting calls, run on documents of their own under one index of the   *)
(* catalog, one statement at a time, in any interleaving.  call.procs      *)
(* holds for each call its position pc, its loop index i, its argument     *)
(* doc, its new dict out, the value it extracted, and ret once it is done; *)
(* before holds the two documents as they were passed.                     *)
(***************************************************************************)
\* the documents, filters and indexes of the interleaved calls
ConcurrentDocs ==
    { PyDict(<<S_event, S_x>>, <<PyDict(<<<<"n">>>>, <<Num(1)>>), Num(5)>>),
      PyDict(<<S_event, S_x, S_userId>>,
             <<Str(<<"c", "l", "i", "c", "k">>), Str(<<"v">>), Str(<<"u", "1">>)>>),
      PyDict(<<S_timestamp, S_a, S_x>>,
             <<Str(<<"t">>),
               PyList(<<ObjB(<<"x">>), ObjB(<<"y">>), ObjB(<<"x">>)>>),
               Str(<<"p", ",", " ", "q", ",", "p">>)>>) }

ConcurrentFilters ==
    { PyDict(<< <<"a", "b">> >>, <<Str(<<"v">>)>>),
      PyDict(<< <<"k">> >>, <<Str(<<"v">>)>>),
      PyDict(<< S_x >>, << PyList(<< PyDict(<< <<"k">> >>, <<Num(1)>>), Str(<<"a", "b">>) >>) >>) }

ConcurrentIndexes == {IndexName(2), IndexName(3), IndexName(6), IndexName(8), IndexName(10)}

Calls == 1..2

\* a call that has not begun
NewCall(kind, doc) ==
    [kind |-> kind, pc |-> "start", i |-> 1, doc |-> doc, out |-> None,
     value |-> None, ret |-> None]

\* both calls of one kind on their documents, under the index name
InitOf(kind, d1, d2, name) ==
    LET l1 == Load(LoadedConfig.heap, d1)
        l2 == Load(l1.heap, d2)
    IN  /\ heap = l2.heap
        /\ call = [op |-> "concurrent", path |-> name,
                   procs |-> <<NewCall(kind, l1.val), NewCall(kind, l2.val)>>]
        /\ before = <<d1, d2>>

InitConcurrent ==
    /\ config = LoadedConfig.val
    /\ result = None
    /\ sent = None
    /\ \E name \in ConcurrentIndexes :
          \/ \E d1 \in ConcurrentDocs, d2 \in ConcurrentDocs :
                InitOf("apply_field_aliases", d1, d2, name)
          \/ \E f1 \in ConcurrentFilters, f2 \in ConcurrentFilters :
                InitOf("resolve_aliases_in_filters", f1, f2, name)

\* the fields section both calls read
shared_fields == fields_of(heap, config, call.path)

\* call p takes one step: np is its new position, h the heap afterwards
Step(p, np, h) ==
    /\ heap' = h
    /\ call' = [call EXCEPT !.procs[p] = np]
    /\ UNCHANGED <<config, result, sent, before>>

\* call p ends with the value or exception ret
Done(proc, ret) == [proc EXCEPT !.pc = "done", !.ret = ret]

\* the dict of line 121 taken from a pool: the last object when it is an
\* empty dict, a new one otherwise
reused_dict(h) ==
    IF h[Len(h)] = EmptyDict THEN [heap |-> h, val |-> Ref(Len(h))]
    ELSE [heap |-> Append(h, EmptyDict), val |-> Ref(Len(h) + 1)]

\* new_source = {} (data_processing.py line 121), alias_to_original = {}
\* (elasticsearch_client.py line 122): a new dict
new_dict(h) == [heap |-> Append(h, EmptyDict), val |-> Ref(Len(h) + 1)]

\* call p makes its new dict d
Allocated(p, proc, d) ==
    Step(p,
         [proc EXCEPT !.out = d.val,
                      !.pc = IF proc.kind = "apply_field_aliases" THEN "copy" ELSE "map"],
         d.heap)

Allocate(p) ==
    /\ call.procs[p].pc = "start"
    /\ Allocated(p, call.procs[p], new_dict(heap))

\* the position after the i-th whitelist field
AfterCopy(proc) ==
    IF proc.i = Len(important_fields) THEN [proc EXCEPT !.pc = "extract", !.i = 1]
    ELSE [proc EXCEPT !.i = proc.i + 1]

\* lines 127-129 for one field, has being field in source
Copied(p, proc, field, has) ==
    IF has = "no" THEN Step(p, AfterCopy(proc), heap)
    ELSE IF has = "yes" /\ isinstance_dict(heap, proc.doc)
    THEN Step(p, AfterCopy(proc),
              dict_set(heap, proc.out, field, dict_item(heap, proc.doc, field)))
    ELSE Step(p, Done(proc, Raise("TypeError")), heap)

CopyImportantField(p) ==
    /\ call.procs[p].pc = "copy"
    /\ Copied(p, call.procs[p], important_fields[call.procs[p].i],
              py_in(heap, important_fields[call.procs[p].i], call.procs[p].doc))

\* lines 136-143: value is the extracted value, formatted when it is a list
Valued(p, proc, value) ==
    IF value = None THEN Step(p, [proc EXCEPT !.i = proc.i + 1], heap)
    ELSE Step(p, [proc EXCEPT !.pc = "write", !.value = value], heap)

\* lines 134-141, raw_value being what get_nested_value returned
Extracted(p, proc, raw_value) ==
    IF IsRaise(raw_value) THEN Step(p, Done(proc, raw_value), heap)
    ELSE IF isinstance_list(heap, raw_value)
    THEN Valued(p, proc, format_extracted_values(heap, raw_value))
    ELSE Valued(p, proc, raw_value)

ExtractField(p) ==
    /\ call.procs[p].pc = "extract"
    /\ call.procs[p].i <= Len(heap[shared_fields.a].keys)
    /\ Extracted(p, call.procs[p],
                 get_nested_value(heap, call.procs[p].doc,
                                  heap[shared_fields.a].keys[call.procs[p].i]))

\* lines 144-160, w being the outcome of the write
Written(p, proc, w) ==
    IF IsRaise(w.exc) THEN Step(p, Done(proc, w.exc), w.heap)
    ELSE Step(p, [proc EXCEPT !.pc = "extract", !.i = proc.i + 1, !.value = None],
              w.heap)

WriteField(p) ==
    /\ call.procs[p].pc = "write"
    /\ Written(p, call.procs[p],
               write_field(heap, call.procs[p].out,
                           heap[shared_fields.a].keys[call.procs[p].i],
                           heap[shared_fields.a].vals[call.procs[p].i],
                           call.procs[p].value))

\* line 162: return new_source
ReturnNewSource(p) ==
    /\ call.procs[p].pc = "extract"
    /\ call.procs[p].i > Len(heap[shared_fields.a].keys)
    /\ Step(p, Done(call.procs[p], call.procs[p].out), heap)

\* elasticsearch_client.py lines 126-128 for one field of the config
Mapped(p, proc, original_name, alias) ==
    Step(p, [proc EXCEPT !.i = proc.i + 1],
         IF truthy(heap, alias)
         THEN dict_set(heap, proc.out, alias.v, Str(original_name))
         ELSE heap)

MapAlias(p) ==
    /\ call.procs[p].pc = "map"
    /\ call.procs[p].i <= Len(heap[shared_fields.a].keys)
    /\ Mapped(p, call.procs[p], heap[shared_fields.a].keys[call.procs[p].i],
              dict_get(heap, heap[shared_fields.a].vals[call.procs[p].i], S_alias, None))

\* line 130: the rewritten filters r are returned
Replaced(p, proc, r) == Step(p, Done(proc, r.val), r.heap)

ReplaceFieldNames(p) ==
    /\ call.procs[p].pc = "map"
    /\ call.procs[p].i > Len(heap[shared_fields.a].keys)
    /\ Replaced(p, call.procs[p],
                replace_field_names_recursive(heap, call.procs[p].doc,
                                              call.procs[p].out))

NextConcurrent ==
    \E p \in Calls :
        \/ Allocate(p)
        \/ CopyImportantField(p)
        \/ ExtractField(p)
        \/ WriteField(p)
        \/ ReturnNewSource(p)
        \/ MapAlias(p)
        \/ ReplaceFieldNames(p)

SpecConcurrent == InitConcurrent /\ [][NextConcurrent]_vars

(***************************************************************************)
(* Properties.  JSON trees stand for documents; a finished call is seen in *)
(* call, result and before until Return.                                   *)
(***************************************************************************)
\* apply_field_aliases has returned a document
Projected == call.op = "apply_field_aliases" /\ ~IsRaise(result)

\* the top-level keys of a JSON object
KeySet(tree) == {tree.keys[i] : i \in 1..Len(tree.keys)}

\* tree[key] for an object that has the key
ItemOf(tree, key) == tree.items[CHOOSE i \in 1..Len(tree.keys) : tree.keys[i] = key]

\* the result of evaluating a path against a document given as a tree: a
\* tree, None, or the exception
EvalTree(tree, path) ==
    LET l == Load(<<>>, tree)
    IN  Tree(l.heap, get_nested_value(l.heap, l.val, path))

\* C1: after apply_field_aliases(source, config) returns, source is deep-equal
\* to its value before the call, and the result is a new document.
C1_SourceNeverMutated ==
    Projected => /\ Tree(heap, call.doc) = before.doc
                 /\ result # call.doc

\* C2: for a well-typed config apply_field_aliases returns a document and
\* never raises.
C2_ProjectionNeverRaises ==
    call.op = "apply_field_aliases" => /\ ~IsRaise(result)
                                       /\ isinstance_dict(heap, result)

\* C3: get_nested_value returns a value, a list or None and never raises.
C3_PathEvaluationNeverRaises ==
    call.op = "get_nested_value" => ~IsRaise(result)

\* C4: every whitelist field that is a top-level key of source is a top-level
\* key of the output with exactly the value it has in source.
C4_WhitelistKeptVerbatim ==
    Projected =>
        \A i \in 1..Len(important_fields) :
            important_fields[i] \in KeySet(before.doc) =>
                /\ dict_has(heap, result, important_fields[i])
                /\ Tree(heap, dict_item(heap, result, important_fields[i]))
                     = ItemOf(before.doc, important_fields[i])

\* the destination name of a field: its alias if it has one, else its path
Destination(path, field_spec) ==
    LET alias == ItemOf(field_spec, S_alias)
    IN  IF alias.t = "str" /\ alias.v # <<>> THEN alias.v ELSE path

\* the top-level key a destination name is written under
TopKey(destination) == split(destination, ".")[1]

\* the path is not Absent in source: it yields a value, and a list it yields
\* has an element to format
NotAbsent(source, path) ==
    LET value == EvalTree(source, path)
    IN  /\ value # None
        /\ value.t = "list" => \E i \in 1..Len(value.items) : value.items[i] # None

\* the whitelist fields of source, and the destinations of the configured
\* fields whose path is not Absent in source
ExpectedKeys(source, fields) ==
    {important_fields[i] : i \in {j \in 1..Len(important_fields) :
                                     important_fields[j] \in KeySet(source)}}
    \cup {TopKey(Destination(fields.keys[i], fields.items[i])) :
             i \in {j \in 1..Len(fields.keys) : NotAbsent(source, fields.keys[j])}}

\* C5: the output has exactly the whitelist fields present in source and the
\* destinations of the configured fields whose path is not Absent in source.
C5_ExactlyTheExpectedKeys ==
    Projected =>
        KeySet(Tree(heap, result)) = ExpectedKeys(before.doc, Tree(heap, call.fields))

\* names for the paths made of plain field segments
PlainNames == {S_a, S_b, S_x}

\* the segment lists of the plain paths: one to three names
PlainSegments ==
    {<<n>> : n \in PlainNames}
    \cup {<<n, m>> : n \in PlainNames, m \in PlainNames}
    \cup {<<n, m, k>> : n \in PlainNames, m \in PlainNames, k \in PlainNames}

\* ordinary nested-key lookup: whether every segment is there, and the value
RECURSIVE Lookup(_, _)
Lookup(tree, segments) ==
    IF segments = <<>> THEN [found |-> TRUE, val |-> tree]
    ELSE IF tree.t = "dict" /\ segments[1] \in KeySet(tree)
    THEN Lookup(ItemOf(tree, segments[1]), Tail(segments))
    ELSE [found |-> FALSE, val |-> None]

\* C6: on a path of plain segments get_nested_value equals nested-key lookup,
\* and it returns Absent (None) exactly when some segment is missing.
C6_PlainPathIsLookup ==
    call.op = "get_nested_value" =>
        \A segments \in PlainSegments :
            call.path = join(<<".">>, segments) =>
                LET l == Lookup(before.doc, segments)
                IN  /\ l.found => Tree(heap, result) = l.val
                    /\ (result = None) <=> ~l.found

\* name[] and name[].rest
FlattenPath(name, rest) ==
    name \o <<"[", "]">> \o (IF rest = <<>> THEN <<>> ELSE <<".">> \o rest)

\* the remainders after a name[] segment
FlattenRests ==
    { <<>>, S_b, <<"b", "[", "]">>, <<"a", "[", "-", "1", "]">> }

\* results in element order: Absent dropped, lists spliced in one level
RECURSIVE Splice(_)
Splice(results) ==
    IF results = <<>> THEN <<>>
    ELSE IF results[1] = None THEN Splice(Tail(results))
    ELSE IF results[1].t = "list" THEN results[1].items \o Splice(Tail(results))
    ELSE <<results[1]>> \o Splice(Tail(results))

\* what name[] followed by rest yields on a document
Flattened(doc, name, rest) ==
    IF ~(doc.t = "dict" /\ name \in KeySet(doc)) THEN None
    ELSE IF ItemOf(doc, name).t # "list" THEN None
    ELSE LET elements == ItemOf(doc, name).items
             each == [i \in 1..Len(elements) |->
                        IF rest = <<>> THEN elements[i] ELSE EvalTree(elements[i], rest)]
         IN  IF \E i \in 1..Len(each) : IsRaise(each[i])
             THEN each[CHOOSE i \in 1..Len(each) :
                          IsRaise(each[i]) /\ \A j \in 1..(i - 1) : ~IsRaise(each[j])]
             ELSE IF Splice(each) = <<>> THEN None
             ELSE PyList(Splice(each))

IndexPath(name, i, rest) ==
    name \o <<"[">> \o int_str(i) \o <<"]">>
         \o (IF rest = <<>> THEN <<>> ELSE <<".">> \o rest)

\* what name[i] followed by rest yields on a document
Indexed(doc, name, i, rest) ==
    IF ~(doc.t = "dict" /\ name \in KeySet(doc)) THEN None
    ELSE IF ItemOf(doc, name).t # "list" THEN None
    ELSE LET elements == ItemOf(doc, name).items
         IN  IF 0 <= i /\ i < Len(elements)
             THEN IF rest = <<>> THEN elements[i + 1] ELSE EvalTree(elements[i + 1], rest)
             ELSE None

\* C8: name[i] continues with element i when 0 <= i < length, and yields
\* Absent for every other i and when name is missing or is no array.
C8_ArrayIndex ==
    call.op = "get_nested_value" =>
        \A i \in (0 - MaxIndex)..MaxIndex, rest \in {<<>>, S_b} :
            call.path = IndexPath(S_a, i, rest) =>
                Tree(heap, result) = Indexed(before.doc, S_a, i, rest)

\* the canonical paths a key stands for: the paths of the fields whose alias
\* it is, or the key itself when it is no alias
Canonical(fields, key) ==
    LET paths == {fields.keys[i] : i \in {j \in 1..Len(fields.keys) :
                                            /\ ItemOf(fields.items[j], S_alias).t = "str"
                                            /\ ItemOf(fields.items[j], S_alias).v = key
                                            /\ key # <<>>}}
    IN  IF paths = {} THEN {key} ELSE paths

\* out is node rewritten: an object with every key replaced by its canonical
\* path and every value rewritten, an array of the rewritten elements in the
\* same order, or the scalar itself
RECURSIVE Rewritten(_, _, _)
Rewritten(node, out, fields) ==
    IF node.t = "dict"
    THEN /\ out.t = "dict"
         /\ \A k \in KeySet(node) : Canonical(fields, k) \cap KeySet(out) # {}
         /\ \A c \in KeySet(out) :
               \E k \in KeySet(node) : /\ c \in Canonical(fields, k)
                                       /\ Rewritten(ItemOf(node, k), ItemOf(out, c), fields)
    ELSE IF node.t = "list"
    THEN /\ out.t = "list"
         /\ Len(out.items) = Len(node.items)
         /\ \A i \in 1..Len(node.items) : Rewritten(node.items[i], out.items[i], fields)
    ELSE out = node

\* C9: alias rewriting returns a new object in which every key that is an
\* alias is replaced by its canonical path, every other key is kept and every
\* value is rewritten recursively; arrays keep their order, scalars stay.
C9_AliasRewriting ==
    call.op = "resolve_aliases_in_filters" =>
        /\ Rewritten(before.doc, Tree(heap, result), Tree(heap, call.fields))
        /\ result # call.doc

\* with a.b aliased ab, the term clause on ab inside bool.must becomes a
\* clause on a.b, and bool, must, term and the key r pass through
C9_Witness ==
    /\ call.op = "resolve_aliases_in_filters"
    /\ S_bool \in KeySet(before.doc)
    /\ LET must == ItemOf(ItemOf(Tree(heap, result), S_bool), S_must).items
       IN  /\ must[1] = PyDict(<<S_term>>,
                               <<PyDict(<< <<"a", ".", "b">> >>, <<Str(<<"v">>)>>)>>)
           /\ must[2] = PyDict(<<S_term>>, <<PyDict(<< <<"r">> >>, <<Num(1)>>)>>)

\* the hit of a projected record set under an empty config: its _source cut
\* down to the whitelist fields, in whitelist order
WhitelistOnly(hit) ==
    IF S_source \notin KeySet(hit) THEN hit
    ELSE LET source == ItemOf(hit, S_source)
             kept == SelectSeq(important_fields, LAMBDA f : f \in KeySet(source))
             cut == PyDict(kept, [i \in 1..Len(kept) |-> ItemOf(source, kept[i])])
         IN  [hit EXCEPT !.items = [i \in 1..Len(hit.keys) |->
                                       IF hit.keys[i] = S_source THEN cut ELSE hit.items[i]]]

\* a record set with every hit cut down to the whitelist
WhitelistOnlyRecords(record_set) ==
    LET hits == ItemOf(ItemOf(record_set, S_hits), S_hits).items
    IN  PyDict(<<S_hits>>,
               <<PyDict(<<S_hits>>,
                        <<PyList([i \in 1..Len(hits) |-> WhitelistOnly(hits[i])])>>)>>)

\* projection of a well-shaped record set under an index the catalog lacks
\* returns the record set with whitelist-only documents
UnknownIndexProjects ==
    (/\ call.op = "process_elasticsearch_data"
     /\ call.path = UnknownIndex
     /\ before.doc \in WellShaped) =>
        /\ result = call.doc
        /\ Tree(heap, result) = WhitelistOnlyRecords(before.doc)

\* the body _build_query makes of the filters and sort the caller passed
BodyOfUnchanged ==
    LET l == Load(<<>>, before.doc)
        ls == Load(l.heap, before.sort)
        q == build_query(ls.heap, l.val, Num(100), Num(0), ls.val)
    IN  Tree(q.heap, q.val)

\* query_index hands the store the caller's filters and sort as they are
QueryUnchanged == sent # None /\ Tree(heap, sent) = BodyOfUnchanged

\* C10 as stated: an index the catalog lacks is an empty config and never a
\* failure: projection returns whitelist-only documents, and query_index
\* leaves filters and sort unchanged without raising for it.
C10_UnknownIndexNeverFails ==
    /\ UnknownIndexProjects
    /\ (call.op = "query_index" /\ call.path = UnknownIndex) =>
           /\ result # Raise("ValueError")
           /\ QueryUnchanged

\* C10 amended: projection treats an index the catalog lacks as an empty
\* config; query_index rejects it with ValueError, before rewriting and
\* without calling the store, when its catalog is non-empty, and passes
\* filters and sort on unchanged only when it has no catalog or an empty one.
C10_UnknownIndexAmended ==
    /\ UnknownIndexProjects
    /\ (call.op = "query_index" /\ call.path = UnknownIndex) =>
           IF truthy(heap, call.cfg)
           THEN /\ result = Raise("ValueError")
                /\ sent = None
                /\ Tree(heap, call.doc) = before.doc
           ELSE /\ result # Raise("ValueError")
                /\ QueryUnchanged

\* query_index with the loaded catalog has rejected an index it lacks
C10_Witness ==
    /\ call.op = "query_index"
    /\ call.path = UnknownIndex
    /\ truthy(heap, call.cfg)
    /\ result = Raise("ValueError")
    /\ before.doc # PyDict(<<>>, <<>>)

\* process_elasticsearch_data was called on a result of the wrong shape
MalformedProcessed ==
    call.op = "process_elasticsearch_data" /\ before.doc \in Malformed

\* C11: on an input that does not have the shape {hits: {hits: [...]}},
\* process_elasticsearch_data returns the identical input, unchanged, and
\* never raises.
C11_MalformedPassThrough ==
    MalformedProcessed => /\ ~IsRaise(result)
                          /\ result = call.doc
                          /\ Tree(heap, result) = before.doc

\* apply_field_aliases(source, fields of the index) on a source of its own:
\* the projected document, or the exception
ProjectedSource(source, index_name) ==
    LET l == Load(LoadedConfig.heap, source)
        f == fields_config_of(get_or_empty(l.heap, LoadedConfig.val, index_name))
        r == apply_field_aliases(f.heap, l.val, f.val)
    IN  Tree(r.heap, r.val)

\* the hit with its _source, when it has one, replaced by the projection
ProjectedHit(hit, index_name) ==
    IF S_source \notin KeySet(hit) THEN hit
    ELSE [hit EXCEPT !.items =
             [i \in 1..Len(hit.keys) |->
                 IF hit.keys[i] = S_source
                 THEN ProjectedSource(hit.items[i], index_name) ELSE hit.items[i]]]

\* the hits of a well-shaped record set
HitsOf(record_set) == ItemOf(ItemOf(record_set, S_hits), S_hits).items

\* the record set with every hit projected, in the same order
ProjectedRecords(record_set, index_name) ==
    PyDict(<<S_hits>>,
           <<PyDict(<<S_hits>>,
                    <<PyList([i \in 1..Len(HitsOf(record_set)) |->
                                 ProjectedHit(HitsOf(record_set)[i], index_name)])>>)>>)

\* process_elasticsearch_data was called on a well-shaped record set
WellShapedProcessed ==
    call.op = "process_elasticsearch_data" /\ before.doc \in WellShaped

\* C12: for a well-shaped record set process_elasticsearch_data returns the
\* record set with the same hits in the same order, the _source of each hit
\* that has one replaced by apply_field_aliases(_source, config of the index).
C12_HitsKeptInOrder ==
    WellShapedProcessed =>
        /\ result = call.doc
        /\ Tree(heap, result) = ProjectedRecords(before.doc, call.path)

\* the value apply_field_aliases has to write for a path: what the path
\* yields on source, a list formatted by format_extracted_values
ValueToWrite(source, path) ==
    LET l == Load(<<>>, source)
        raw_value == get_nested_value(l.heap, l.val, path)
    IN  IF isinstance_list(l.heap, raw_value)
        THEN format_extracted_values(l.heap, raw_value)
        ELSE Tree(l.heap, raw_value)

\* no other field of the config writes under the top-level key of field i
SoleWriter(fields, i) ==
    \A j \in 1..Len(fields.keys) :
        j # i => TopKey(Destination(fields.keys[j], fields.items[j]))
                   # TopKey(Destination(fields.keys[i], fields.items[i]))

\* the string a field has to leave at its destination
DedupedIfNeeded(field_spec, value) ==
    IF ItemOf(field_spec, S_need_dedupe) = True
    THEN deduplicate_field_values(<<>>, value) ELSE value

\* field i of the config extracted a string from source
ExtractsString(source, fields, i) == ValueToWrite(source, fields.keys[i]).t = "str"

\* field i left at its destination the string it had to
WroteDeduped(source, out, fields, i) ==
    Lookup(out, split(Destination(fields.keys[i], fields.items[i]), "."))
      = [found |-> TRUE,
         val |-> DedupedIfNeeded(fields.items[i], ValueToWrite(source, fields.keys[i]))]

\* C13: a configured field whose extracted value is a string leaves
\* deduplicate_field_values(value) at its destination when its spec has
\* need_dedupe, with or without an alias, and the value as extracted when it
\* has not.
C13_DedupeWhenNeeded ==
    Projected =>
        \A i \in 1..Len(Tree(heap, call.fields).keys) :
            (/\ ExtractsString(before.doc, Tree(heap, call.fields), i)
             /\ SoleWriter(Tree(heap, call.fields), i))
            => WroteDeduped(before.doc, Tree(heap, result), Tree(heap, call.fields), i)

\* format_extracted_values was called on a list
ListFormatted == call.op = "format_extracted_values" /\ before.doc.t = "list"

\* the string forms of the elements of a list that are not null, in order
StringForms(values) ==
    LET l == Load(<<>>, values)
        kept == SelectSeq(list_items(l.heap, l.val), LAMBDA v : v # None)
    IN  [i \in 1..Len(kept) |-> py_str(l.heap, kept[i])]

\* the elements of seq from the i-th on that occur nowhere before in seq
RECURSIVE KeepFirst(_, _)
KeepFirst(seq, i) ==
    IF i > Len(seq) THEN <<>>
    ELSE (IF \E j \in 1..(i - 1) : seq[j] = seq[i] THEN <<>> ELSE <<seq[i]>>)
         \o KeepFirst(seq, i + 1)

\* the pieces with ", " between them
RECURSIVE CommaJoined(_)
CommaJoined(pieces) ==
    IF pieces = <<>> THEN <<>>
    ELSE IF Len(pieces) = 1 THEN pieces[1]
    ELSE CommaJoined(SubSeq(pieces, 1, Len(pieces) - 1))
         \o <<",", " ">> \o pieces[Len(pieces)]

\* C14: for a list, format_extracted_values returns the string forms of the
\* non-null elements, first occurrences only, in first-seen order, joined
\* with ", "; and Absent (None) when no element survives.
C14_FormatList ==
    ListFormatted =>
        result = IF KeepFirst(StringForms(before.doc), 1) = <<>> THEN None
                 ELSE Str(CommaJoined(KeepFirst(StringForms(before.doc), 1)))

\* ["a", "b", "a"] has been formatted to "a, b"
C14_Witness ==
    /\ ListFormatted
    /\ before.doc = PyList(<<Str(<<"a">>), Str(<<"b">>), Str(<<"a">>)>>)
    /\ result = Str(<<"a", ",", " ", "b">>)

\* C15: for an input that is no list, format_extracted_values returns the
\* input unchanged, with its type: a number stays a number.
C15_ScalarUnchanged ==
    (call.op = "format_extracted_values" /\ before.doc.t # "list") =>
        /\ result = call.doc
        /\ Tree(heap, result) = before.doc

\* deduplicate_field_values was called on a string
StringDeduplicated ==
    call.op = "deduplicate_field_values" /\ before.doc.t = "str"

\* the position of the last comma of s, 0 when it has none
LastComma(s) ==
    IF \E i \in 1..Len(s) : s[i] = ","
    THEN CHOOSE i \in 1..Len(s) : s[i] = "," /\ \A j \in (i + 1)..Len(s) : s[j] # ","
    ELSE 0

\* the pieces of s between its commas
RECURSIVE PiecesOf(_)
PiecesOf(s) ==
    IF LastComma(s) = 0 THEN <<s>>
    ELSE Append(PiecesOf(SubSeq(s, 1, LastComma(s) - 1)),
                SubSeq(s, LastComma(s) + 1, Len(s)))

\* a piece without its leading and trailing whitespace
Trimmed(piece) ==
    LET solid == {i \in 1..Len(piece) : piece[i] \notin Whitespace}
    IN  IF solid = {} THEN <<>>
        ELSE SubSeq(piece,
                    CHOOSE i \in solid : \A j \in solid : i <= j,
                    CHOOSE i \in solid : \A j \in solid : j <= i)

\* the trimmed pieces of s, in order
TrimmedPieces(s) == [i \in 1..Len(PiecesOf(s)) |-> Trimmed(PiecesOf(s)[i])]

\* where a piece first occurs among pieces
FirstAt(pieces, piece) ==
    CHOOSE i \in 1..Len(pieces) :
        pieces[i] = piece /\ \A j \in 1..(i - 1) : pieces[j] # piece

\* the pieces of out are pieces of s, in the order of their first occurrence
InFirstOccurrenceOrder(out, s) ==
    /\ \A i \in 1..Len(out) : \E j \in 1..Len(s) : s[j] = out[i]
    /\ \A i, j \in 1..Len(out) : i < j => FirstAt(s, out[i]) < FirstAt(s, out[j])

\* C16: deduplicate_field_values is idempotent, and the pieces of its result
\* appear in the order of their first occurrence in s.
C16_DedupeIdempotent ==
    StringDeduplicated =>
        /\ deduplicate_field_values(heap, result) = result
        /\ InFirstOccurrenceOrder(TrimmedPieces(result.v), TrimmedPieces(before.doc.v))

\* "b,a,b" gave "b, a", on which a second pass changes nothing
C16_Witness ==
    /\ StringDeduplicated
    /\ before.doc = Str(<<"b", ",", "a", ",", "b">>)
    /\ result = Str(<<"b", ",", " ", "a">>)
    /\ deduplicate_field_values(heap, result) = result

\* C17: for a non-empty string the result is its pieces between commas,
\* trimmed, later duplicates removed, joined with ", "; None, the empty
\* string and every non-string come back unchanged.
C17_DedupeCommaList ==
    call.op = "deduplicate_field_values" =>
        IF before.doc.t = "str" /\ before.doc.v # <<>>
        THEN result = Str(CommaJoined(KeepFirst(TrimmedPieces(before.doc.v), 1)))
        ELSE /\ result = call.doc
             /\ Tree(heap, result) = before.doc

\* "a,b,c,a,b" gave "a, b, c"
C17_Witness ==
    /\ call.op = "deduplicate_field_values"
    /\ before.doc = Str(<<"a", ",", "b", ",", "c", ",", "a", ",", "b">>)
    /\ result = Str(<<"a", ",", " ", "b", ",", " ", "c">>)

\* the destination names of a config, in field order
Destinations(fields) ==
    [i \in 1..Len(fields.keys) |-> Destination(fields.keys[i], fields.items[i])]

\* the last field of the config that has the destination
LastWith(fields, destination) ==
    CHOOSE i \in 1..Len(fields.keys) :
        /\ Destinations(fields)[i] = destination
        /\ \A j \in (i + 1)..Len(fields.keys) : Destinations(fields)[j] # destination

\* the config restricted to destination-named paths: every destination maps
\* to a spec with no alias and the need_dedupe of its field
DestinationConfig(fields) ==
    LET names == KeepFirst(Destinations(fields), 1)
    IN  PyDict(names,
               [k \in 1..Len(names) |->
                   FieldSpec(None,
                             ItemOf(fields.items[LastWith(fields, names[k])],
                                    S_need_dedupe))])

\* apply_field_aliases(out, config') for a projected document out
Reprojected(out, fields) ==
    LET l == Load(<<>>, out)
        lc == Load(l.heap, DestinationConfig(fields))
        r == apply_field_aliases(lc.heap, l.val, lc.val)
    IN  Tree(r.heap, r.val)

\* equality of two JSON values, the order of the keys of an object aside
RECURSIVE SameJson(_, _)
SameJson(x, y) ==
    IF x.t = "dict" /\ y.t = "dict"
    THEN /\ KeySet(x) = KeySet(y)
         /\ \A k \in KeySet(x) : SameJson(ItemOf(x, k), ItemOf(y, k))
    ELSE IF x.t = "list" /\ y.t = "list"
    THEN /\ Len(x.items) = Len(y.items)
         /\ \A i \in 1..Len(x.items) : SameJson(x.items[i], y.items[i])
    ELSE x = y

\* C18: projecting the output again under the config restricted to
\* destination-named paths gives the output back.
C18_ProjectionIdempotent ==
    Projected =>
        SameJson(Reprojected(Tree(heap, result), Tree(heap, call.fields)),
                 Tree(heap, result))

\* the fields of the config that declare key as their alias
DeclaredBy(fields, key) ==
    {j \in 1..Len(fields.keys) : /\ ItemOf(fields.items[j], S_alias).t = "str"
                                 /\ ItemOf(fields.items[j], S_alias).v = key
                                 /\ key # <<>>}

\* the canonical path of a key when the first declared field wins
FirstDeclared(fields, key) ==
    IF DeclaredBy(fields, key) = {} THEN key
    ELSE fields.keys[CHOOSE j \in DeclaredBy(fields, key) :
                        \A i \in DeclaredBy(fields, key) : j <= i]

\* every key of the object node stands in out as its first declared path
FirstWins(node, out, fields) ==
    \A k \in KeySet(node) : FirstDeclared(fields, k) \in KeySet(out)

\* query_index has sent a query with a sort for an index of the catalog
SortSent ==
    /\ call.op = "query_index"
    /\ call.cfg = config
    /\ call.path \in IndexNames
    /\ before.sort.t = "list"
    /\ before.sort.items # <<>>
    /\ sent # None

\* C19: an alias declared by two fields of an index stands for the first
\* declared field, in the rewriting of filters and in the rewriting of sort.
C19_FirstAliasWins ==
    /\ call.op = "resolve_aliases_in_filters" =>
           FirstWins(before.doc, Tree(heap, result), Tree(heap, call.fields))
    /\ SortSent =>
           \A i \in 1..Len(before.sort.items) :
               FirstWins(before.sort.items[i],
                         ItemOf(Tree(heap, sent), S_sort).items[i],
                         Tree(heap, fields_of(heap, config, call.path)))

\* the objects of the catalog, as the heap holds them now
CatalogObjects == SubSeq(heap, 1, Len(LoadedConfig.heap))

\* C20: whatever calls were made, with whatever arguments, the index
\* configuration is the object load_index_config returned, with the value it
\* had then.
C20_CatalogReadOnly ==
    /\ config = LoadedConfig.val
    /\ CatalogObjects = LoadedConfig.heap
    /\ Tree(heap, config) = IndexConfigTree

\* list_indexes has returned one entry for each index, the events of the
\* first being the very list the catalog holds
C20_Witness ==
    /\ call.op = "list_indexes"
    /\ Len(list_items(heap, result)) = Len(FieldsConfigs)
    /\ dict_item(heap, list_items(heap, result)[1], S_events)
         = dict_item(heap, dict_item(heap, config, IndexName(1)), S_events)

\* call p run alone on its document: the heap afterwards and its outcome
Alone(p) ==
    LET l == Load(LoadedConfig.heap, before[p])
        r == IF call.procs[p].kind = "apply_field_aliases"
             THEN apply_field_aliases(l.heap, l.val,
                                      fields_of(l.heap, LoadedConfig.val, call.path))
             ELSE resolve_aliases_in_filters(l.heap, l.val,
                                             dict_item(l.heap, LoadedConfig.val,
                                                       call.path))
    IN  [out |-> Tree(r.heap, r.val), doc |-> Tree(r.heap, l.val)]

\* C21: interleaved with another call on a document of its own under the
\* same config, a call returns what it returns alone and leaves its input as
\* it does alone; the input of a call that has not begun is as it was passed.
C21_CallsIndependent ==
    call.op = "concurrent" =>
        \A p \in Calls :
            /\ call.procs[p].pc = "start" =>
                   Tree(heap, call.procs[p].doc) = before[p]
            /\ call.procs[p].pc = "done" =>
                   /\ Tree(heap, call.procs[p].ret) = Alone(p).out
                   /\ Tree(heap, call.procs[p].doc) = Alone(p).doc

\* both calls are done, the second made its new dict before the first wrote
\* its last field, and both wrote into the event object of their documents
C21_Witness ==
    /\ call.op = "concurrent"
    /\ call.path = IndexName(3)
    /\ \A p \in Calls : /\ call.procs[p].pc = "done"
                        /\ ~IsRaise(call.procs[p].ret)
                        /\ Tree(heap, call.procs[p].doc) # before[p]
    /\ call.procs[1].out.a > call.procs[2].out.a

\* raw[key] when the raw object has the key, the default otherwise
OrDefault(raw, key, default) ==
    IF key \in KeySet(raw) THEN ItemOf(raw, key) ELSE default

\* the string form of a value
StringForm(tree) == py_str(Load(<<>>, tree).heap, Load(<<>>, tree).val)

\* the spec a raw field configuration has to be normalized to
NormalizedSpec(raw) ==
    IF raw.t = "str"
    THEN PyDict(<<S_description, S_alias, S_need_dedupe>>, <<raw, None, False>>)
    ELSE IF raw.t = "dict"
    THEN PyDict(<<S_description, S_alias, S_need_dedupe>>,
                <<OrDefault(raw, S_description, Str(<<>>)),
                  OrDefault(raw, S_alias, None),
                  OrDefault(raw, S_need_dedupe, False)>>)
    ELSE PyDict(<<S_description, S_alias, S_need_dedupe>>,
                <<Str(StringForm(raw)), None, False>>)

\* C22: parse_field_config returns a spec with exactly the keys description,
\* alias and need_dedupe: for a string the string as description, for an
\* object its own values with the defaults "", None and False, for any other
\* value its string form; it never raises.
C22_FieldConfigNormalized ==
    call.op = "parse_field_config" =>
        /\ ~IsRaise(result)
        /\ SameJson(Tree(heap, result), NormalizedSpec(before.doc))

\* {"alias": "r"} has been normalized with the defaults "" and False
C22_Witness ==
    /\ call.op = "parse_field_config"
    /\ before.doc = PyDict(<<S_alias>>, <<Str(<<"r">>)>>)
    /\ Tree(heap, result) = PyDict(<<S_description, S_alias, S_need_dedupe>>,
                                   <<Str(<<>>), Str(<<"r">>), False>>)

\* the entry list_indexes has to make for a field
FieldInfo(path, field_spec) ==
    PyDict(<<S_original_name, S_description, S_alias, S_need_dedupe>>,
           <<Str(path), ItemOf(field_spec, S_description), ItemOf(field_spec, S_alias),
             ItemOf(field_spec, S_need_dedupe)>>)

\* field j of the config is listed under its display name
Listed(listing, fields, j) ==
    /\ Destination(fields.keys[j], fields.items[j]) \in KeySet(listing)
    /\ ItemOf(listing, Destination(fields.keys[j], fields.items[j]))
         = FieldInfo(fields.keys[j], fields.items[j])

\* the fields listing of the entry made for the i-th index of the catalog
ListingOf(i) == ItemOf(Tree(heap, result).items[i], S_fields)

\* list_indexes has returned one entry for each index of the catalog, in
\* catalog order
IndexesListed ==
    /\ call.op = "list_indexes"
    /\ ~IsRaise(result)
    /\ Len(Tree(heap, result).items) = Len(FieldsConfigs)
    /\ \A i \in 1..Len(FieldsConfigs) :
          ItemOf(Tree(heap, result).items[i], S_name) = Str(IndexName(i))

\* C23 as stated: every configured field of every index is listed under its
\* display name with its canonical path and its spec; none is missing.
C23_EveryFieldListed ==
    call.op = "list_indexes" =>
        /\ IndexesListed
        /\ \A i \in 1..Len(FieldsConfigs) :
              \A j \in 1..Len(FieldsConfigs[i].keys) :
                  Listed(ListingOf(i), FieldsConfigs[i], j)

\* the path has a name[] segment
HasWildcard(path) ==
    \E k \in 1..Len(split(path, ".")) : endswith(split(path, ".")[k], <<"[", "]">>)

\* field i of the config has a path of plain fields and name[i] segments, and
\* nothing but the formatter could change what it extracts from source
ExtractsUnformatted(source, fields, i) ==
    /\ ~HasWildcard(fields.keys[i])
    /\ ItemOf(fields.items[i], S_need_dedupe) # True
    /\ EvalTree(source, fields.keys[i]) # None
    /\ ~IsRaise(EvalTree(source, fields.keys[i]))

\* C24: a value extracted through a path without a name[] segment stands at
\* the field's destination unchanged, with its type and content.
C24_FormatterOnlyForWildcard ==
    Projected =>
        \A i \in 1..Len(Tree(heap, call.fields).keys) :
            (/\ ExtractsUnformatted(before.doc, Tree(heap, call.fields), i)
             /\ SoleWriter(Tree(heap, call.fields), i))
            => Lookup(Tree(heap, result),
                      split(Destination(Tree(heap, call.fields).keys[i],
                                        Tree(heap, call.fields).items[i]), "."))
                 = [found |-> TRUE,
                    val |-> EvalTree(before.doc, Tree(heap, call.fields).keys[i])]

\* field i of the config has a value to write for source
Writes(source, fields, i) ==
    /\ ValueToWrite(source, fields.keys[i]) # None
    /\ ~IsRaise(ValueToWrite(source, fields.keys[i]))

\* field i is the last field of the config that writes at its destination
LastWriter(source, fields, i) ==
    /\ Writes(source, fields, i)
    /\ \A j \in (i + 1)..Len(fields.keys) :
          Destinations(fields)[j] = Destinations(fields)[i] => ~Writes(source, fields, j)

\* plain nested-key lookup of the destination of field i in out returns the
\* value of the field, as extracted or deduplicated
AtDestination(source, out, fields, i) ==
    /\ Lookup(out, split(Destinations(fields)[i], ".")).found
    /\ Lookup(out, split(Destinations(fields)[i], ".")).val
         \in {ValueToWrite(source, fields.keys[i]),
              deduplicate_field_values(<<>>, ValueToWrite(source, fields.keys[i]))}

\* C25: apply_field_aliases writes the value of every field at the field's
\* destination, alias or else path, nested when the destination is dotted;
\* the last field that writes at a destination determines the value there.
C25_WrittenAtDestination ==
    call.op = "apply_field_aliases" =>
        /\ ~IsRaise(result)
        /\ \A i \in 1..Len(Tree(heap, call.fields).keys) :
              LastWriter(before.doc, Tree(heap, call.fields), i)
              => AtDestination(before.doc, Tree(heap, result), Tree(heap, call.fields), i)

\* the segment has the form name[idx] with an integer idx
IsIndexSegment(segment) ==
    /\ Contains(segment, "[")
    /\ endswith(segment, <<"]">>)
    /\ int_accepts(SubSeq(split1(segment, "[")[2], 1, Len(split1(segment, "[")[2]) - 1))

\* the path is one segment that is neither name[] nor name[idx]
IsPlainSegment(path) ==
    /\ path # <<>>
    /\ ~Contains(path, ".")
    /\ ~endswith(path, <<"[", "]">>)
    /\ ~IsIndexSegment(path)

\* C26: a path of one segment that is neither name[] nor name[idx] with an
\* integer idx is looked up as an object key: get_nested_value returns the
\* value of that key when the document has it, and Absent otherwise.
C26_MalformedSegmentIsPlainField ==
    (call.op = "get_nested_value" /\ IsPlainSegment(call.path)) =>
        Tree(heap, result)
          = IF call.path \in KeySet(before.doc)
            THEN ItemOf(before.doc, call.path) ELSE None

\* out has the shape of node: an object with as many entries, each of the
\* shape of the entry at its place, an array of the same length with elements
\* of the same shape in order, or the same scalar
RECURSIVE SameShape(_, _)
SameShape(node, out) ==
    IF node.t = "dict"
    THEN /\ out.t = "dict"
         /\ Len(out.keys) = Len(node.keys)
         /\ \A i \in 1..Len(node.keys) : SameShape(node.items[i], out.items[i])
    ELSE IF node.t = "list"
    THEN /\ out.t = "list"
         /\ Len(out.items) = Len(node.items)
         /\ \A i \in 1..Len(node.items) : SameShape(node.items[i], out.items[i])
    ELSE out = node

\* C27: alias rewriting loses nothing: the rewritten filters and the
\* rewritten sort have the shape of the input, entry for entry, and the input
\* is left as it was.
C27_RewritingKeepsShape ==
    /\ call.op = "resolve_aliases_in_filters" =>
           /\ SameShape(before.doc, Tree(heap, result))
           /\ Tree(heap, call.doc) = before.doc
    /\ SortSent =>
           /\ SameShape(before.sort, ItemOf(Tree(heap, sent), S_sort))
           /\ Tree(heap, call.sort) = before.sort

\* query_index was called for an index of the loaded catalog
ConfiguredQuery ==
    /\ call.op = "query_index"
    /\ call.cfg = config
    /\ call.path \in IndexNames

\* the key and the value of a term or range clause
ClauseKey(clause) == clause.items[1].keys[1]

ClauseValue(clause) == clause.items[1].items[1]

\* the clauses bool.must of a query body
MustOf(body) == ItemOf(ItemOf(ItemOf(body, S_query), S_bool), S_must).items

\* the clauses are made of the filters rewritten: every key of the filters
\* stands in a clause as its canonical path, and every clause holds the
\* canonical path of a key of the filters with that key's value rewritten
ClausesRewritten(filters, must, fields) ==
    /\ \A k \in KeySet(filters) :
          \E i \in 1..Len(must) : ClauseKey(must[i]) \in Canonical(fields, k)
    /\ \A i \in 1..Len(must) :
          \E k \in KeySet(filters) :
              /\ ClauseKey(must[i]) \in Canonical(fields, k)
              /\ Rewritten(ItemOf(filters, k), ClauseValue(must[i]), fields)

\* the query of the body is the filters rewritten, passed on as they are when
\* they hold a query type, made into bool.must clauses otherwise
QueryRewritten(filters, body, fields) ==
    IF \E t \in es_query_types : t \in KeySet(filters)
    THEN Rewritten(filters, ItemOf(body, S_query), fields)
    ELSE ClausesRewritten(filters, MustOf(body), fields)

\* the sort of the body is the caller's sort rewritten; no sort, none sent
SortRewritten(sort, body, fields) ==
    IF sort.t = "list" /\ sort.items # <<>>
    THEN /\ S_sort \in KeySet(body)
         /\ Rewritten(sort, ItemOf(body, S_sort), fields)
    ELSE S_sort \notin KeySet(body)

\* C28: query_index for a configured index calls the store with a body built
\* from the rewritten filters and the rewritten sort: every alias key of the
\* caller stands there as its canonical path.
C28_RewrittenBeforeSearch ==
    ConfiguredQuery =>
        /\ sent # None
        /\ QueryRewritten(before.doc, Tree(heap, sent),
                          Tree(heap, fields_of(heap, config, call.path)))
        /\ SortRewritten(before.sort, Tree(heap, sent),
                         Tree(heap, fields_of(heap, config, call.path)))

\* with a.b aliased ab, the filter on ab was sent as a term clause on a.b and
\* the sort on ab as a sort on a.b
C28_Witness ==
    /\ ConfiguredQuery
    /\ call.path = IndexName(2)
    /\ before.doc = PyDict(<< <<"a", "b">> >>, <<Str(<<"v">>)>>)
    /\ before.sort.t = "list"
    /\ before.sort.items # <<>>
    /\ sent # None
    /\ MustOf(Tree(heap, sent))
         = << PyDict(<<S_term>>, <<PyDict(<< <<"a", ".", "b">> >>, <<Str(<<"v">>)>>)>>) >>
    /\ ItemOf(Tree(heap, sent), S_sort).items[1]
         = PyDict(<< <<"a", ".", "b">> >>, <<Str(<<"a", "s", "c">>)>>)

\* the raw fields of a content: its fields section, or the content itself
RawFields(content) ==
    IF S_fields \in KeySet(content) /\ ItemOf(content, S_fields).t = "dict"
    THEN ItemOf(content, S_fields) ELSE content

\* the raw configuration of a field is marked need_now
MarkedNeedNow(raw) ==
    /\ raw.t = "dict"
    /\ S_need_now \in KeySet(raw)
    /\ ItemOf(raw, S_need_now) = True

\* the fields load_index_config has loaded for the index
LoadedFields == ItemOf(ItemOf(Tree(heap, result), call.path), S_fields)

\* load_index_config has loaded the fields of a content that is a mapping
Loaded ==
    /\ call.op = "load_index_config"
    /\ before.doc.t = "dict"
    /\ ~IsRaise(result)

\* C29: a field whose raw configuration is marked need_now is loaded with the
\* retention notice of get_retention_dates_info as its description.
C29_NeedNowGetsRetentionNotice ==
    Loaded =>
        \A i \in 1..Len(RawFields(before.doc).keys) :
            MarkedNeedNow(RawFields(before.doc).items[i]) =>
                /\ RawFields(before.doc).keys[i] \in KeySet(LoadedFields)
                /\ ItemOf(ItemOf(LoadedFields, RawFields(before.doc).keys[i]),
                          S_description) = get_retention_dates_info(call.sort.v)

\* C30: after set_nested_value(obj, p, v), get_nested_value(obj, p) returns
\* v, and every key of obj off the path p has the value it had.
C30_SetGetRoundTrip ==
    call.op = "set_nested_value" =>
        /\ ~IsRaise(result)
        /\ Tree(heap, get_nested_value(heap, call.doc, call.path)) = before.sort
        /\ \A k \in KeySet(before.doc) :
              k # split(call.path, ".")[1] =>
                  /\ k \in KeySet(Tree(heap, call.doc))
                  /\ ItemOf(Tree(heap, call.doc), k) = ItemOf(before.doc, k)

====
